---- MODULE Spec2Model ----
(***************************************************************************)
(* Model of miner_models/lead_auditor.py: the LinkedIn URL canonicalizer,  *)
(* the duplicate-fingerprint checker (remote transparency log + local      *)
(* cache) and the audit orchestrator.                                      *)
(*                                                                         *)
(* Text values are sequences of tokens; the text a sequence stands for is  *)
(* the concatenation of its tokens.  A token is a run of characters that   *)
(* the modelled code never looks inside of.                                *)
(***************************************************************************)
EXTENDS Integers, Sequences, FiniteSets, TLC

VARIABLES
    \* ---- normalize_linkedin_url, applied twice to one input
    url,        \* the input text
    url_type,   \* "profile" | "company"
    norm1,      \* normalize_linkedin_url(url, url_type)
    norm2,      \* normalize_linkedin_url(norm1, url_type)
    npc,        \* "start" | "once" | "twice" | "idle"
    \* ---- DuplicateChecker and its collaborators
    log,        \* the remote transparency log; created_at of a row is its index
    cacheFile,  \* ~/.leadpoet/duplicate_cache.json
    cache,      \* DuplicateChecker.cache
    mode,       \* DuplicateChecker.mode
    last,       \* the call that returned last, with its arguments and result
    \* ---- audit_lead, called twice with the same arguments and environment
    lead,               \* the lead
    duplicate_mode,     \* "online" | "offline"
    run_network_checks, \* the flag of that name
    setup,              \* what the collaborators do: remote log access, network, taxonomy
    result1,            \* what the first call returned
    result2,            \* what the second call returned
    apc,                \* "start" | "once" | "twice" | "idle"
    \* ---- one call of a validator or of preview_score
    fname,         \* the function called
    fargs,       \* its arguments
    fret,        \* what it returned
    cpc,        \* "start" | "done" | "idle"
    \* ---- the process the function is called in
    _TAXONOMY_CACHE,    \* the memoized taxonomy, NotLoaded while the global is None
    taxonomy_opens      \* how many times the process opened the taxonomy file

normVars == <<url, url_type, norm1, norm2, npc>>
dupVars == <<log, cacheFile, cache, mode, last>>
auditVars == <<lead, duplicate_mode, run_network_checks, setup, result1, result2, apc>>
callVars == <<fname, fargs, fret, cpc, _TAXONOMY_CACHE, taxonomy_opens>>
vars ==
    <<url, url_type, norm1, norm2, npc, log, cacheFile, cache, mode, last,
      lead, duplicate_mode, run_network_checks, setup, result1, result2, apc,
      fname, fargs, fret, cpc, _TAXONOMY_CACHE, taxonomy_opens>>

(***************************************************************************)
(* Bounds of the model                                                     *)
(***************************************************************************)
MaxPathLen == 4
MaxLog == 2
MaxDeviations == 2
MaxRoleLen == 3
MaxLoads == 3

(***************************************************************************)
(* Text helpers                                                            *)
(***************************************************************************)
\* All sequences over S of length 0..n.
SeqUpTo(S, n) == UNION {[1..k -> S] : k \in 0..n}

\* str.lower(), token by token.
LowerTok(t) ==
    CASE t = "LinkedIn.com" -> "linkedin.com"
      [] t = "ABC" -> "abc"
      [] t = "Ann" -> "ann"
      [] t = "Software" -> "software"
      [] t = "Machine" -> "machine"
      [] t = "Learning" -> "learning"
      [] t = "Farming" -> "farming"
      [] t = "Sales" -> "sales"
      [] t = "Manger" -> "manger"
      [] t = "Lyon" -> "lyon"
      [] t = "Houston" -> "houston"
      [] t = "Paris" -> "paris"
      [] t = "Kenya" -> "kenya"
      [] t = "United States" -> "united states"
      [] t = "France" -> "france"
      [] t = "Nurse" -> "nurse"
      [] t = "Owner" -> "owner"
      [] t = "Director" -> "director"
      [] t = "Chief Technology Officer" -> "chief technology officer"
      [] t = "CTO" -> "cto"
      [] t = "Australia" -> "australia"
      [] t = "TX" -> "tx"
      [] t = "Chief Technology Officer and Vice President" ->
            "chief technology officer and vice president"
      [] t = "Machine Learning" -> "machine learning"
      [] OTHER -> t

Lower(s) == [i \in 1..Len(s) |-> LowerTok(s[i])]

IsSpace(t) == t = " "

\* str.lstrip() / str.rstrip() / str.strip(): whitespace at the two ends.
RECURSIVE LStrip(_)
LStrip(s) == IF s # <<>> /\ IsSpace(Head(s)) THEN LStrip(Tail(s)) ELSE s

RECURSIVE RStrip(_)
RStrip(s) ==
    IF s # <<>> /\ IsSpace(s[Len(s)]) THEN RStrip(SubSeq(s, 1, Len(s) - 1)) ELSE s

Strip(s) == RStrip(LStrip(s))

\* s.split(sep)[0]: the text before the first occurrence of sep.
RECURSIVE BeforeFirst(_, _)
BeforeFirst(s, sep) ==
    IF s = <<>> \/ Head(s) = sep THEN <<>>
    ELSE <<Head(s)>> \o BeforeFirst(Tail(s), sep)

\* re.sub(r'/+', '/', s): every run of slashes becomes one slash.
RECURSIVE CollapseSlashes(_)
CollapseSlashes(s) ==
    IF Len(s) < 2 THEN s
    ELSE IF s[1] = "/" /\ s[2] = "/" THEN CollapseSlashes(Tail(s))
    ELSE <<Head(s)>> \o CollapseSlashes(Tail(s))

\* s.rstrip('/')
RECURSIVE RStripSlash(_)
RStripSlash(s) ==
    IF s # <<>> /\ s[Len(s)] = "/" THEN RStripSlash(SubSeq(s, 1, Len(s) - 1)) ELSE s

\* The longest prefix of s holding no slash: what ([^/]+) takes, greedily.
RECURSIVE NoSlashRun(_)
NoSlashRun(s) ==
    IF s = <<>> \/ Head(s) = "/" THEN <<>>
    ELSE <<Head(s)>> \o NoSlashRun(Tail(s))

\* re.search(r'linkedin\.com/<kind>/([^/]+)', s): group(1) of the leftmost
\* match, or <<>> when nothing matches (a match's group is never empty).
RECURSIVE SearchSlug(_, _)
SearchSlug(s, kind) ==
    IF Len(s) < 5 THEN <<>>
    ELSE IF /\ s[1] = "linkedin.com" /\ s[2] = "/" /\ s[3] = kind /\ s[4] = "/"
            /\ s[5] # "/"
         THEN NoSlashRun(SubSeq(s, 5, Len(s)))
         ELSE SearchSlug(Tail(s), kind)

\* The text a token sequence stands for, as one string.
RECURSIVE Join(_)
Join(s) == IF s = <<>> THEN "" ELSE Head(s) \o Join(Tail(s))

\* sep.join(strings)
RECURSIVE JoinWith(_, _)
JoinWith(strs, sep) ==
    IF strs = <<>> THEN ""
    ELSE IF Len(strs) = 1 THEN Head(strs)
    ELSE Head(strs) \o sep \o JoinWith(Tail(strs), sep)

\* len(text)
TextLen(s) == Len(Join(s))

Range(s) == {s[i] : i \in DOMAIN s}

\* The longest prefix of s that holds no token of stops.
RECURSIVE TakeUntil(_, _)
TakeUntil(s, stops) ==
    IF s = <<>> \/ Head(s) \in stops THEN <<>>
    ELSE <<Head(s)>> \o TakeUntil(Tail(s), stops)

\* text.split(): the whitespace-separated words, as strings.
RECURSIVE SplitWords(_)
SplitWords(s) ==
    LET t == LStrip(s)
        w == TakeUntil(t, {" "})
    IN  IF t = <<>> THEN <<>>
        ELSE <<Join(w)>> \o SplitWords(SubSeq(t, Len(w) + 1, Len(t)))

\* text.split(sep): the pieces between the occurrences of the token sep.
RECURSIVE SplitOn(_, _)
SplitOn(s, sep) ==
    LET w == TakeUntil(s, {sep})
    IN  IF Len(w) = Len(s) THEN <<s>>
        ELSE <<w>> \o SplitOn(SubSeq(s, Len(w) + 2, Len(s)), sep)

\* words.count(w)
Occurrences(words, w) == Cardinality({i \in DOMAIN words : words[i] = w})

(* Tokens that are a single mark; every other token of a role, a description
   or a name is a run of letters.                                          *)
Marks == {" ", ",", "@", "+", "/", "?", "#", "|"}

\* sum(c.isalpha() for c in text), for texts of words and marks.
RECURSIVE Letters(_)
Letters(s) ==
    IF s = <<>> THEN 0
    ELSE (IF Head(s) \in Marks THEN 0 ELSE Len(Head(s))) + Letters(Tail(s))

(* (token, pattern): the pattern is a proper substring of the token.  No
   text of the model spreads a pattern the code searches for over two
   tokens, so that a text holds a pattern when one of its tokens does.     *)
Inside ==
    {<<"usa", "us">>, <<"industrial", "us">>, <<"mangerial", "manger">>,
     <<"director", "cto">>, <<"houston", "us">>, <<"machine learning", "learning">>}
    \cup {<<"australia", "us">>}
    \cup {<<"chief technology officer and vice president", pattern>> :
             pattern \in {"chief technology officer", "vice president", "president"}}
    \cup {<<t, ".com">> : t \in {"acme.com", "evil.com", "gmail.com", "linkedin.com",
                                 "x.com", "zoominfo.com"}}

\* A search inside the words instead: every token and every pattern it holds.
WordRuns_Substrings(s) ==
    {t \in Range(s) : t \notin Marks} \cup {pr[2] : pr \in {q \in Inside : q[1] \in Range(s)}}

\* re.findall(r'\b\w+\b', text): the runs of word characters, as strings.
RECURSIVE WordRuns(_)
WordRuns(s) ==
    IF s = <<>> THEN {}
    ELSE IF Head(s) \in Marks THEN WordRuns(Tail(s))
    ELSE LET w == TakeUntil(s, Marks)
         IN  {Join(w)} \cup WordRuns(SubSeq(s, Len(w) + 1, Len(s)))

\* pattern in text
Contains(s, p) == \E i \in DOMAIN s : s[i] = p \/ <<s[i], p>> \in Inside

\* part in text, for a part that is itself a text of one token (or empty).
TextIn(p, s) == p = <<>> \/ (Len(p) = 1 /\ Contains(s, p[1]))

\* for p in patterns: if p in text: ...; break -- the first pattern found.
RECURSIVE FirstIn(_, _)
FirstIn(patterns, s) ==
    IF patterns = <<>> THEN <<>>
    ELSE IF Contains(s, Head(patterns)) THEN <<Head(patterns)>>
    ELSE FirstIn(Tail(patterns), s)

\* [p for p in patterns if p in text]
RECURSIVE AllIn(_, _)
AllIn(patterns, s) ==
    IF patterns = <<>> THEN <<>>
    ELSE (IF Contains(s, Head(patterns)) THEN <<Head(patterns)>> ELSE <<>>)
         \o AllIn(Tail(patterns), s)

(***************************************************************************)
(* The lead: a JSON object.  A key the object does not hold has the value  *)
(* Absent; the JSON values true and false are JsonTrue and JsonFalse.      *)
(***************************************************************************)
Absent == <<"(absent)">>
JsonTrue == <<"(true)">>
JsonFalse == <<"(false)">>
\* A JSON number other than 0: a value that is true in a condition, and not a str.
JsonNumber == <<"(number)">>

\* lead.get(key, "")
Get(l, key) == IF l[key] = Absent THEN <<>> ELSE l[key]

(***************************************************************************)
(* CONSTANTS of the source                                                 *)
(***************************************************************************)
ROLE_TYPOS ==
    <<[correct |-> "manager",
       typos |-> <<"manger", "maneger", "managr", "mangaer", "manaager", "managar",
                   "manageer", "maanger", "mamager", "mnager", "mangager", "mananger",
                   "managaer", "managre", "maager", "managerr", "mananager", "manater",
                   "maneger">>],
      [correct |-> "management",
       typos |-> <<"managment", "managemnt", "manegement", "managament", "mangement",
                   "managenment", "managerment", "managemnet", "managemetn">>],
      [correct |-> "director",
       typos |-> <<"directer", "directur", "direcor", "directot", "drector", "direktor",
                   "diector", "directior", "directr", "direcctor", "dirctor", "directore",
                   "derector", "directoer", "direcotr", "directoor">>]>>

ROLE_PLACEHOLDERS ==
    {"asdfgh", "qwerty", "zxcvbn", "asdf", "qwer", "zxcv", "aaaaaa", "bbbbbb", "test",
     "testing", "xxx", "yyy", "zzz", "null", "undefined", "none", "n/a", "na", "tbd",
     "tba", "placeholder", "temp", "todo", "fixme", "abc", "xyz"}

ROLE_JOB_KEYWORDS ==
    <<"manager", "director", "engineer", "developer", "analyst", "consultant",
      "specialist", "coordinator", "assistant", "executive", "officer", "lead",
      "head", "chief", "president", "vp", "vice", "senior", "junior", "associate",
      "partner", "founder", "owner", "ceo", "cto", "cfo", "coo", "cmo", "cio",
      "sales", "marketing", "operations", "admin", "supervisor", "representative",
      "architect", "designer", "writer", "editor", "producer", "teacher", "professor",
      "coach", "trainer", "nurse", "doctor", "attorney", "lawyer", "accountant",
      "advisor", "adviser", "strategist", "planner", "recruiter", "broker">>

ROLE_CSUITE_TITLES ==
    <<"ceo", "cfo", "cto", "coo", "cmo", "cio", "cso", "cro", "cco", "cpo">>

BLOCKED_EMAIL_PREFIXES ==
    <<"info", "hello", "owner", "ceo", "founder", "contact", "support", "team",
      "admin", "office", "mail", "connect", "help", "hi", "welcome", "inquiries",
      "general", "feedback", "ask", "outreach", "communications", "crew", "staff",
      "community", "reachus", "talk", "service">>

FREE_EMAIL_DOMAINS ==
    {"gmail.com", "googlemail.com", "yahoo.com", "yahoo.co.uk", "yahoo.fr",
     "outlook.com", "hotmail.com", "live.com", "msn.com", "aol.com", "mail.com",
     "protonmail.com", "proton.me", "icloud.com", "me.com", "mac.com", "zoho.com",
     "yandex.com", "gmx.com", "mail.ru"}

DISPOSABLE_DOMAINS ==
    {"tempmail.com", "temp-mail.org", "guerrillamail.com", "mailinator.com",
     "throwaway.email", "10minutemail.com", "fakeinbox.com", "trashmail.com",
     "maildrop.cc", "getnada.com", "yopmail.com", "sharklasers.com",
     "dispostable.com", "mailnesia.com", "tempail.com", "tempr.email"}

VALID_EMPLOYEE_COUNTS ==
    <<"0-1", "2-10", "11-50", "51-200", "201-500", "501-1,000", "1,001-5,000",
      "5,001-10,000", "10,001+">>

REQUIRED_FIELDS ==
    <<"business", "full_name", "first", "last", "email", "role", "website",
      "industry", "sub_industry", "country", "city", "linkedin", "company_linkedin",
      "source_url", "description", "employee_count">>

VALID_SOURCE_TYPES ==
    <<"public_registry", "company_site", "first_party_form", "licensed_resale",
      "proprietary_database">>

RESTRICTED_SOURCES ==
    <<"zoominfo.com", "apollo.io", "people-data-labs.com", "peopledatalabs.com",
      "rocketreach.co", "hunter.io", "snov.io", "lusha.com", "clearbit.com",
      "leadiq.com", "seamless.ai", "cognism.com", "uplead.com", "lead411.com">>

LOCATION_GARBAGE_PATTERNS ==
    <<"software", "technology", "solutions", "services", "consulting", "marketing",
      "sales", "engineering", "development", "management", "http://", "https://",
      "www.", ".com", ".org", ".io", "department", "division", "team", "group",
      "unit", "street", "avenue", "boulevard", "road", "suite", "floor", "n/a",
      "none", "null", "undefined", "test", "asdf">>

US_COUNTRY_ALIASES == {"united states", "usa", "us", "america", "u.s.", "u.s.a."}

\* The hub cities whose names are ASCII text.
MAJOR_HUBS_BY_COUNTRY ==
  {
    [country |-> "united states", cities |-> {"atlanta", "austin", "boston", "brooklyn", "chicago", "dallas", "denver", "houston", "los angeles", "manhattan", "miami", "new york city", "phoenix", "portland", "san diego", "san francisco", "san jose", "seattle", "washington"}],
    [country |-> "canada", cities |-> {"montreal", "toronto", "vancouver"}],
    [country |-> "united kingdom", cities |-> {"cambridge", "edinburgh", "london", "manchester", "oxford"}],
    [country |-> "germany", cities |-> {"berlin", "frankfurt", "frankfurt am main", "hamburg", "munich"}],
    [country |-> "france", cities |-> {"paris"}],
    [country |-> "netherlands", cities |-> {"amsterdam", "rotterdam"}],
    [country |-> "switzerland", cities |-> {"geneva", "zurich"}],
    [country |-> "ireland", cities |-> {"dublin"}],
    [country |-> "sweden", cities |-> {"stockholm"}],
    [country |-> "spain", cities |-> {"barcelona", "madrid"}],
    [country |-> "hong kong", cities |-> {"hong kong"}],
    [country |-> "singapore", cities |-> {"singapore"}],
    [country |-> "japan", cities |-> {"osaka", "tokyo"}],
    [country |-> "south korea", cities |-> {"seoul"}],
    [country |-> "china", cities |-> {"beijing", "shanghai", "shenzhen"}],
    [country |-> "india", cities |-> {"bangalore", "bengaluru", "hyderabad", "mumbai", "new delhi", "pune"}],
    [country |-> "australia", cities |-> {"melbourne", "sydney"}],
    [country |-> "new zealand", cities |-> {"auckland"}],
    [country |-> "israel", cities |-> {"tel aviv"}],
    [country |-> "united arab emirates", cities |-> {"abu dhabi", "dubai"}],
    [country |-> "brazil", cities |-> {"sao paulo"}]
  }

\* A definition without the key "regions" has no region filter.
ICP_DEFINITIONS ==
  <<
    [name |-> "Fuel/Energy Operations",
     sub_industries |->
       <<"fuel", "oil and gas", "fossil fuels", "energy">>,
     roles |->
       <<"coo", "chief operating officer", "director of operations",
         "vp of operations", "cto", "chief technology officer", "vp of engineering",
         "cio", "chief information officer">>],
    [name |-> "Agriculture/Farming",
     sub_industries |->
       <<"agriculture", "farming", "agtech", "livestock", "aquaculture">>,
     roles |->
       <<"coo", "chief operating officer", "vp of operations", "cto",
         "chief technology officer", "vp of engineering", "cio",
         "chief information officer">>],
    [name |-> "Renewable Energy",
     sub_industries |->
       <<"solar", "wind energy", "renewable energy", "clean energy", "biomass energy",
         "energy storage", "energy efficiency">>,
     roles |->
       <<"coo", "vp of operations", "cto", "vp of engineering", "cio", "asset manager",
         "site manager", "plant manager", "facility manager">>],
    [name |-> "Winery/Horticulture",
     sub_industries |->
       <<"winery", "wine and spirits", "horticulture", "farming", "agriculture",
         "hydroponics">>,
     roles |->
       <<"coo", "vp of operations", "cto", "vp of engineering", "cio", "farm manager",
         "vineyard manager", "head grower", "production manager">>],
    [name |-> "E-Commerce/Retail Marketing",
     sub_industries |->
       <<"e-commerce", "e-commerce platforms", "retail", "retail technology">>,
     roles |->
       <<"vp ecommerce", "vp e-commerce", "director of ecommerce", "head of growth",
         "vp of growth", "chief growth officer", "cmo", "chief marketing officer",
         "vp of marketing", "founder", "co-founder", "ceo">>],
    [name |-> "Digital Marketing/Advertising",
     sub_industries |->
       <<"digital marketing", "email marketing", "marketing", "marketing automation",
         "advertising", "advertising platforms", "affiliate marketing",
         "content marketing">>,
     roles |->
       <<"founder", "co-founder", "ceo", "director of partnerships",
         "vp of partnerships", "head of strategy", "chief strategy officer", "cmo",
         "managing director", "president">>],
    [name |-> "AI/ML Technical",
     sub_industries |->
       <<"artificial intelligence", "machine learning", "natural language processing",
         "predictive analytics">>,
     roles |->
       <<"ceo", "founder", "co-founder", "cto", "vp of engineering",
         "head of engineering", "vp of ai", "head of ai", "director of ai",
         "vp of machine learning", "chief ai officer", "chief data officer",
         "software engineer">>],
    [name |-> "Real Estate Investment",
     sub_industries |->
       <<"real estate", "real estate investment", "residential",
         "commercial real estate", "property development", "property management">>,
     roles |->
       <<"ceo", "owner", "co-owner", "sole operator", "founder", "co-founder",
         "managing partner", "managing director", "principal", "president", "partner">>],
    [name |-> "Wealth Management/Family Office",
     sub_industries |->
       <<"asset management", "venture capital", "hedge funds", "financial services",
         "impact investing">>,
     roles |->
       <<"ceo", "president", "managing director", "managing partner", "principal",
         "partner", "founder", "cio", "chief investment officer", "portfolio manager",
         "wealth manager", "coo", "cfo", "family office manager">>],
    [name |-> "FinTech/Banking Risk & Compliance",
     sub_industries |->
       <<"fintech", "banking", "payments", "financial services", "credit cards",
         "mobile payments", "transaction processing">>,
     roles |->
       <<"cro", "chief risk officer", "vp of risk", "head of risk", "director of risk",
         "cco", "chief compliance officer", "vp of compliance", "head of compliance",
         "compliance officer", "bsa officer", "aml officer", "kyc manager">>],
    [name |-> "Clinical Research/Labs",
     sub_industries |->
       <<"clinical trials", "biotechnology", "pharmaceutical", "biopharma",
         "life science">>,
     roles |->
       <<"data scientist", "data manager", "clinical data manager", "biostatistician",
         "ceo", "cto", "coo", "cso", "chief scientific officer", "vp of operations">>],
    [name |-> "Research/Academic",
     sub_industries |->
       <<"higher education", "life science", "biotechnology", "neuroscience", "genetics">>,
     roles |->
       <<"principal investigator", "lead researcher", "senior researcher",
         "research director", "professor", "associate professor",
         "assistant professor", "research scientist", "lab director", "department head">>],
    [name |-> "Biotech/Pharma",
     sub_industries |->
       <<"biotechnology", "biopharma", "pharmaceutical", "genetics", "life science",
         "bioinformatics">>,
     roles |->
       <<"ceo", "founder", "cto", "cso", "chief scientific officer", "coo", "cmo",
         "vp of business development", "head of business development",
         "vp of partnerships">>],
    [name |-> "Broadcasting/Media (Africa)",
     sub_industries |->
       <<"broadcasting", "video", "digital media", "content",
         "content delivery network", "telecommunications", "digital entertainment">>,
     roles |->
       <<"cto", "cfo", "head of engineering", "vp of engineering", "head of video",
         "head of streaming", "head of ott", "director of ott", "head of product",
         "chief product officer">>,
     regions |->
       <<"africa", "nigeria", "south africa", "kenya", "ghana", "egypt", "morocco",
         "ethiopia", "tanzania", "uganda", "algeria", "sudan", "angola", "cameroon">>],
    [name |-> "Hospitality/Hotels (US)",
     sub_industries |->
       <<"hospitality", "hotel", "resorts", "travel accommodations", "vacation rental",
         "tourism">>,
     roles |->
       <<"business development", "vp of business development", "owner", "co-owner",
         "founder", "ceo", "president", "general manager", "gm", "operations manager",
         "director of operations", "hotel manager">>,
     regions |->
       <<"united states", "usa", "us", "america", "u.s.", "u.s.a.">>],
    [name |-> "Small/Local Businesses (US)",
     sub_industries |->
       <<"local business", "local", "retail", "restaurants", "food and beverage",
         "professional services", "home services", "real estate", "construction",
         "automotive", "health care", "fitness", "beauty", "consulting">>,
     roles |->
       <<"owner", "co-owner", "business owner", "sole proprietor", "sole operator",
         "franchise owner", "franchisee", "store owner", "founder", "ceo", "principal",
         "partner">>,
     regions |->
       <<"united states", "usa", "us", "america", "u.s.", "u.s.a.">>]
  >>

(***************************************************************************)
(* SECTION 1: required fields                                              *)
(***************************************************************************)
\* field_name not in lead or not str(lead[field_name]).strip()
Blank(l, key) == l[key] = Absent \/ Strip(l[key]) = <<>>

RECURSIVE MissingFields(_, _)
MissingFields(l, fields) ==
    IF fields = <<>> THEN <<>>
    ELSE (IF Blank(l, Head(fields)) THEN <<"missing_field:" \o Head(fields)>> ELSE <<>>)
         \o MissingFields(l, Tail(fields))

validate_required_fields(l) ==
    LET country == Lower(Get(l, "country"))
    IN  MissingFields(l, REQUIRED_FIELDS)
        \o (IF (\E alias \in US_COUNTRY_ALIASES : Contains(country, alias))
               /\ Blank(l, "state")
            THEN <<"missing_field:state (required for US leads)">> ELSE <<>>)

(***************************************************************************)
(* SECTION 1b: source provenance                                           *)
(***************************************************************************)
\* re.match(r'^[a-fA-F0-9]{64}$', text)
Hex64 == {"e3b0c44298fc1c149afbf4c8996fb92427ae41e4649b934ca495991b7852b855"}
IsHex64(s) == Len(s) = 1 /\ s[1] \in Hex64 /\ Len(s[1]) = 64

validate_source_provenance(l) ==
    LET source_url == Strip(Get(l, "source_url"))
        restricted == FirstIn(RESTRICTED_SOURCES, Lower(source_url))
        source_type == Strip(Get(l, "source_type"))
        license_hash == Strip(Get(l, "license_doc_hash"))
    IN  (IF source_url = <<>> THEN <<"missing_field:source_url">>
         ELSE IF restricted # <<>> THEN <<"restricted_source:" \o restricted[1]>>
         ELSE <<>>)
        \o (IF source_type = <<>> THEN <<"missing_field:source_type">>
            ELSE IF Join(source_type) \notin Range(VALID_SOURCE_TYPES)
            THEN <<"source_type_invalid:" \o Join(source_type) \o " (valid: "
                   \o JoinWith(VALID_SOURCE_TYPES, ", ") \o ")">>
            ELSE <<>>)
        \o (IF Join(source_type) # "licensed_resale" THEN <<>>
            ELSE IF license_hash = <<>>
            THEN <<"missing_license_doc_hash (required for licensed_resale)">>
            ELSE IF ~IsHex64(license_hash)
            THEN <<"license_doc_hash_invalid_format (must be 64 hex chars SHA-256)">>
            ELSE <<>>)

(***************************************************************************)
(* SECTION 1c: terms attestation                                           *)
(***************************************************************************)
\* Mutant: any value that is true in a condition attests.
Attested_Truthy(l, key) ==
    IF l[key] \in {Absent, JsonFalse}
    THEN <<"attestation_false_or_missing:" \o key>> ELSE <<>>

\* lead.get(field_name) is not True
Attested(l, key) ==
    IF l[key] # JsonTrue THEN <<"attestation_false_or_missing:" \o key>> ELSE <<>>

validate_attestation(l) ==
    (IF Strip(Get(l, "wallet_ss58")) = <<>> THEN <<"missing_field:wallet_ss58">> ELSE <<>>)
    \o (IF Strip(Get(l, "terms_version_hash")) = <<>>
        THEN <<"missing_field:terms_version_hash">> ELSE <<>>)
    \o Attested(l, "lawful_collection")
    \o Attested(l, "no_restricted_sources")
    \o Attested(l, "license_granted")

(***************************************************************************)
(* SECTION 1d: location                                                    *)
(***************************************************************************)
LOCATION_MAX_LENGTH == 50

\* loc_lower.startswith(("the ", "a ", "an "))
StartsWithArticle(s) == Len(s) >= 2 /\ s[1] \in {"the", "a", "an"} /\ s[2] = " "

(* The checks of one location value.  `for word in set(words)' visits the
   words in the order of the set, which the hash seed of the interpreter
   fixes anew in every process: any word that is long enough and repeated
   can be the one reported.  The result is the set of the lists the call
   can return.                                                             *)
LocationErrors(location_value, field_name) ==
    IF location_value = <<>> THEN {<<>>}
    ELSE
    LET loc == Strip(location_value)
        loc_lower == Lower(loc)
        garbage == FirstIn(LOCATION_GARBAGE_PATTERNS, loc_lower)
        words == SplitWords(loc_lower)
        repeated == {w \in Range(words) : Len(w) > 3 /\ Occurrences(words, w) >= 2}
        before ==
            (IF TextLen(loc) > LOCATION_MAX_LENGTH
             THEN <<field_name \o "_too_long:" \o ToString(TextLen(loc)) \o "/"
                    \o ToString(LOCATION_MAX_LENGTH)>>
             ELSE <<>>)
            \o (IF garbage # <<>> THEN <<field_name \o "_garbage_pattern:" \o garbage[1]>>
                ELSE <<>>)
        after == IF StartsWithArticle(loc_lower)
                 THEN <<field_name \o "_starts_with_article">> ELSE <<>>
    IN  IF Len(words) >= 2 /\ repeated # {}
        THEN {before \o <<field_name \o "_duplicate_word:" \o w>> \o after : w \in repeated}
        ELSE {before \o after}

validate_location(city, country, region) ==
    {a \o b \o c : a \in LocationErrors(city, "city"),
                   b \in LocationErrors(country, "country"),
                   c \in LocationErrors(region, "region")}

(***************************************************************************)
(* SECTION 2: role                                                         *)
(***************************************************************************)
\* for correct, typos in ROLE_TYPOS.items(): the first typo of each row that
\* is a whole word of the role.
RECURSIVE FirstTypo(_, _)
FirstTypo(typos, words) ==
    IF typos = <<>> THEN <<>>
    ELSE IF Head(typos) \in words THEN <<Head(typos)>>
    ELSE FirstTypo(Tail(typos), words)

RECURSIVE TypoErrors(_, _)
TypoErrors(rows, words) ==
    IF rows = <<>> THEN <<>>
    ELSE LET typo == FirstTypo(Head(rows).typos, words)
         IN  (IF typo # <<>>
              THEN <<"role_typo:" \o typo[1] \o "->" \o Head(rows).correct>> ELSE <<>>)
             \o TypoErrors(Tail(rows), words)

\* sum(1 for p in parts if any(kw in p for kw in ROLE_JOB_KEYWORDS))
KeywordParts(parts) ==
    Cardinality({i \in DOMAIN parts : FirstIn(ROLE_JOB_KEYWORDS, Lower(Strip(parts[i]))) # <<>>})

\* re.search(r'(.)\1{3,}', text), for a text whose words repeat no character
\* four times: four equal marks in a row.
RepeatedChars(s) ==
    \E i \in DOMAIN s :
        i + 3 <= Len(s) /\ s[i] \in Marks /\ \A k \in 1..3 : s[i + k] = s[i]

(* The checks of validate_role that a role of words, spaces and commas can
   fail, in the order of the source: 1 (length), 2 (letters), 4
   (placeholder), 5 (repeated characters), 6 (repeated words), 13 (typos),
   14 (letter count), 15
   (leading special character), 26 (several C-suite titles) and 27 (comma
   stuffing).  The other checks look for digits, dots, URLs, symbols or
   phrases that no such role holds.                                        *)
validate_role(role) ==
    IF role = <<>> THEN <<"role_empty">>
    ELSE
    LET r == Strip(role)
        role_lower == Lower(r)
        words == SplitWords(role_lower)
        letters == Letters(r)
        csuite_found == AllIn(ROLE_CSUITE_TITLES, role_lower)
    IN  (IF TextLen(r) < 2 THEN <<"role_too_short">> ELSE <<>>)
        \o (IF TextLen(r) > 80
            THEN <<"role_too_long:" \o ToString(TextLen(r)) \o "/80">> ELSE <<>>)
        \o (IF letters = 0 THEN <<"role_no_letters">> ELSE <<>>)
        \o (IF Join(role_lower) \in ROLE_PLACEHOLDERS THEN <<"role_placeholder">> ELSE <<>>)
        \o (IF RepeatedChars(r) THEN <<"role_repeated_chars">> ELSE <<>>)
        \o (IF \E w \in Range(words) : Occurrences(words, w) >= 3
            THEN <<"role_repeated_words">> ELSE <<>>)
        \o TypoErrors(ROLE_TYPOS, WordRuns(role_lower))
        \o (IF letters < 3 THEN <<"role_too_few_letters">> ELSE <<>>)
        \o (IF r # <<>> /\ Head(r) \in Marks \ {" "} THEN <<"role_starts_special_char">> ELSE <<>>)
        \o (IF Len(csuite_found) > 1
            THEN <<"role_multiple_csuite:" \o JoinWith(csuite_found, ",")>> ELSE <<>>)
        \o (IF "," \in Range(r) /\ KeywordParts(SplitOn(r, ",")) >= 3
            THEN <<"role_comma_stuffing">> ELSE <<>>)

(***************************************************************************)
(* SECTION 3: description                                                  *)
(***************************************************************************)
DescPlaceholders ==
    <<"lorem ipsum", "n/a", "placeholder", "test description", "tbd", "coming soon">>

(* The checks of validate_description that a description of words and
   spaces can fail: 1 (length), 2 (letters), 3 (letter count), 9
   (placeholder) and 13 (leading pipe).  errors and warnings are the two
   lists of the returned tuple.                                            *)
validate_description(description) ==
    IF description = <<>> THEN [errors |-> <<"description_empty">>, warnings |-> <<>>]
    ELSE
    LET d == Strip(description)
        letters == Letters(d)
    IN  [warnings |->
            IF TextLen(d) < 70
            THEN <<"desc_short:" \o ToString(TextLen(d)) \o "/70 (quality warning)">>
            ELSE <<>>,
         errors |->
            (IF TextLen(d) > 2000 THEN <<"desc_too_long">> ELSE <<>>)
            \o (IF letters = 0 THEN <<"desc_no_letters">> ELSE <<>>)
            \o (IF letters < 50
                THEN <<"desc_too_few_letters:" \o ToString(letters) \o "/50">> ELSE <<>>)
            \o (IF FirstIn(DescPlaceholders, Lower(d)) # <<>>
                THEN <<"desc_placeholder">> ELSE <<>>)
            \o (IF d # <<>> /\ Head(d) = "|" THEN <<"desc_formatting_junk">> ELSE <<>>)]

(***************************************************************************)
(* SECTION 4: email                                                        *)
(***************************************************************************)
\* Domain tokens: a dotted name with a top-level domain of two or more letters.
DomainToks == {"x.com", "acme.com", "gmail.com", "zoominfo.com"}

\* re.match(r'^[a-zA-Z0-9._%+-]+@[a-zA-Z0-9.-]+\.[a-zA-Z]{2,}$', email)
ValidEmailFormat(e) ==
    LET local == TakeUntil(e, {"@"})
    IN  /\ local # <<>>
        /\ \A i \in DOMAIN local : local[i] \notin (Marks \ {"+"})
        /\ Len(e) = Len(local) + 2
        /\ e[Len(e)] \in DomainToks

\* email_lower.startswith(prefix), for the prefixes `name@' in their order.
RECURSIVE BlockedPrefix(_, _)
BlockedPrefix(prefixes, email_lower) ==
    IF prefixes = <<>> THEN <<>>
    ELSE IF /\ Len(email_lower) >= 2
            /\ email_lower[1] = Head(prefixes) /\ email_lower[2] = "@"
         THEN <<"email_blocked_prefix:" \o Head(prefixes)>>
         ELSE BlockedPrefix(Tail(prefixes), email_lower)

validate_email(email, first, last_name) ==
    IF email = <<>> THEN <<"email_empty">>
    ELSE
    LET e == Strip(email)
        email_lower == Lower(e)
        local_part == SplitOn(e, "@")[1]
        domain == IF "@" \in Range(email_lower)
                  THEN Join(SplitOn(email_lower, "@")[2]) ELSE ""
        local_lower == Lower(local_part)
        first_lower == Strip(Lower(first))
        last_lower == Strip(Lower(last_name))
        name_found ==
            \/ TextLen(first_lower) >= 3 /\ TextIn(first_lower, local_lower)
            \/ TextLen(last_lower) >= 3 /\ TextIn(last_lower, local_lower)
    IN  (IF ~ValidEmailFormat(e) THEN <<"email_invalid_format">> ELSE <<>>)
        \o (IF "+" \in Range(local_part) THEN <<"email_plus_alias">> ELSE <<>>)
        \o BlockedPrefix(BLOCKED_EMAIL_PREFIXES, email_lower)
        \o (IF domain \in FREE_EMAIL_DOMAINS THEN <<"email_free_domain:" \o domain>>
            ELSE <<>>)
        \o (IF domain \in DISPOSABLE_DOMAINS THEN <<"email_disposable:" \o domain>>
            ELSE <<>>)
        \o (IF ~name_found /\ TextLen(first_lower) >= 3 /\ TextLen(last_lower) >= 3
            THEN <<"email_no_name_match">> ELSE <<>>)

(***************************************************************************)
(* SECTION 4b: network checks                                              *)
(***************************************************************************)
(* What the network collaborators do during one call:
     dns     "missing"   import dns.resolver raises ImportError
             "found"     the MX query returns records
             "empty"     the MX query returns no record
             "raises"    the MX query raises
     listed  the Spamhaus DBL query returns a record
     whois   "missing"   import whois raises ImportError
             "raises"    the lookup raises
             "no_date"   the answer holds no creation date
             "dated"     the domain was created age_days days ago
     http    "missing"   import requests raises ImportError
             "raises"    the HEAD request raises
             "answers"   the response has status_code                      *)
Net(dns, listed, whois, age_days, http, status_code) ==
    [dns |-> dns, listed |-> listed, whois |-> whois, age_days |-> age_days,
     http |-> http, status_code |-> status_code]

\* website.lower().replace('https://', '').replace('http://', '')
\*        .split('/')[0].split('?')[0]
WebsiteDomain(website) ==
    LET low == Lower(website)
        clean == SelectSeq(low, LAMBDA t : t \notin {"https://", "http://"})
    IN  Join(SplitOn(SplitOn(clean, "/")[1], "?")[1])

validate_network_checks(website, email, net) ==
    LET domain == IF email # <<>> /\ "@" \in Range(email)
                  THEN Join(Lower(SplitOn(email, "@")[2])) ELSE ""
        website_domain == IF website # <<>> THEN WebsiteDomain(website) ELSE ""
        check_domain == IF website_domain # "" THEN website_domain ELSE domain
    IN  (IF net.dns = "missing"
         THEN <<"network_check_skipped:dns.resolver not installed (pip install dnspython)">>
         ELSE IF domain = "" \/ net.dns = "found" THEN <<>>
         ELSE IF net.dns = "empty" THEN <<"mx_record_missing:" \o domain>>
         ELSE <<"mx_record_check_failed:" \o domain>>)
        \o (IF net.whois = "dated" /\ check_domain # "" /\ net.age_days < 7
            THEN <<"domain_too_new:" \o check_domain \o " (" \o ToString(net.age_days)
                   \o " days, need >= 7)">>
            ELSE <<>>)
        \o (IF net.http = "missing" \/ website = <<>> THEN <<>>
            ELSE IF net.http = "raises" THEN <<"website_unreachable:" \o Join(website)>>
            ELSE IF net.status_code # 200
            THEN <<"website_not_accessible:" \o Join(website) \o " (HTTP "
                   \o ToString(net.status_code) \o ")">>
            ELSE <<>>)
        \o (IF net.dns # "missing" /\ domain # "" /\ net.listed
            THEN <<"domain_blacklisted:" \o domain \o " (Spamhaus DBL)">> ELSE <<>>)

(***************************************************************************)
(* SECTION 5: employee count                                               *)
(***************************************************************************)
validate_employee_count(count) ==
    IF count = <<>> THEN <<"employee_count_empty">>
    ELSE IF Join(Strip(count)) \notin Range(VALID_EMPLOYEE_COUNTS)
    THEN <<"employee_count_invalid:" \o Join(Strip(count)) \o " (valid: "
           \o JoinWith(VALID_EMPLOYEE_COUNTS, ", ") \o ")">>
    ELSE <<>>

(***************************************************************************)
(* SECTION 6: industry and sub-industry                                    *)
(***************************************************************************)
(* The taxonomy file belongs to the validator package.  What
   load_industry_taxonomy returns is a lookup from the lowered sub-industry
   to the lowered industries it belongs to; it is empty when the file is
   absent or cannot be parsed.                                             *)
NoTaxonomy == <<>>
Taxonomy == ("machine learning" :> <<"software">>) @@ ("farming" :> <<"agriculture">>)

(* What the taxonomy file can be when load_industry_taxonomy first reads it:
   missing, unreadable (open raises), without the text INDUSTRY_TAXONOMY = {
   (an empty file is one), holding a literal that ast.literal_eval rejects,
   holding a literal whose entries are not of the expected shape, holding
   the empty dict, or holding the taxonomy.  Every exception is caught and
   {} returned.                                                            *)
TaxonomyFiles ==
    {"missing", "unreadable", "no_assignment", "bad_literal", "bad_entries", "empty_dict",
     "taxonomy"}
load_industry_taxonomy(file) == IF file = "taxonomy" THEN Taxonomy ELSE NoTaxonomy

(* The module global _TAXONOMY_CACHE: None until a load assigns it.  One call
   of load_industry_taxonomy in a process whose global is memo: what it
   returns, what the global is afterwards, and whether it opened the file.
   The global is assigned on the one path that parsed the file; a missing
   file is probed with exists() and not opened.                             *)
NotLoaded == [loaded |-> FALSE, value |-> NoTaxonomy]
Memoized(taxonomy) == [loaded |-> TRUE, value |-> taxonomy]
LoadTaxonomy(memo, file) ==
    IF memo.loaded THEN [ret |-> memo.value, memo |-> memo, opened |-> FALSE]
    ELSE IF file = "missing" THEN [ret |-> NoTaxonomy, memo |-> memo, opened |-> FALSE]
    ELSE IF file \in {"empty_dict", "taxonomy"}
    THEN [ret |-> load_industry_taxonomy(file),
          memo |-> Memoized(load_industry_taxonomy(file)), opened |-> TRUE]
    ELSE [ret |-> NoTaxonomy, memo |-> memo, opened |-> TRUE]

\* Mutant: without a taxonomy nothing is reported.
validate_industry_pair_Lenient(industry, sub_industry, taxonomy) ==
    LET sub_lower == Join(Strip(Lower(sub_industry)))
        ind_lower == Join(Strip(Lower(industry)))
    IN  IF DOMAIN taxonomy = {} THEN <<>>
        ELSE IF sub_lower = "" THEN <<"sub_industry_empty">>
        ELSE IF sub_lower \notin DOMAIN taxonomy
        THEN <<"sub_industry_invalid:" \o Join(sub_industry)>>
        ELSE IF ind_lower = "" THEN <<"industry_empty">>
        ELSE IF ind_lower \notin Range(taxonomy[sub_lower])
        THEN <<"industry_mismatch:" \o Join(industry) \o " not valid for "
               \o Join(sub_industry) \o " (valid: "
               \o JoinWith(taxonomy[sub_lower], ", ") \o ")">>
        ELSE <<>>

validate_industry_pair(industry, sub_industry, taxonomy) ==
    LET sub_lower == Join(Strip(Lower(sub_industry)))
        ind_lower == Join(Strip(Lower(industry)))
    IN  IF DOMAIN taxonomy = {} THEN <<"taxonomy_not_loaded">>
        ELSE IF sub_lower = "" THEN <<"sub_industry_empty">>
        ELSE IF sub_lower \notin DOMAIN taxonomy
        THEN <<"sub_industry_invalid:" \o Join(sub_industry)>>
        ELSE IF ind_lower = "" THEN <<"industry_empty">>
        ELSE IF ind_lower \notin Range(taxonomy[sub_lower])
        THEN <<"industry_mismatch:" \o Join(industry) \o " not valid for "
               \o Join(sub_industry) \o " (valid: "
               \o JoinWith(taxonomy[sub_lower], ", ") \o ")">>
        ELSE <<>>

(***************************************************************************)
(* SECTION 7: LinkedIn URL validation                                      *)
(***************************************************************************)
\* re.sub(r'^https?://', '', url)
DropScheme(s) ==
    IF s # <<>> /\ Head(s) \in {"https://", "http://"} THEN Tail(s) ELSE s

\* re.sub(r'^www\.', '', url)
DropWww(s) == IF s # <<>> /\ Head(s) = "www." THEN Tail(s) ELSE s

\* url.startswith('linkedin.com')
StartsWithLinkedin(s) == s # <<>> /\ Head(s) = "linkedin.com"

normalize_linkedin_url(u, t) ==
    IF u = <<>> THEN <<>>
    ELSE LET a == DropWww(DropScheme(Lower(Strip(u))))
         IN  IF ~StartsWithLinkedin(a) THEN <<>>
             ELSE LET c == RStripSlash(CollapseSlashes(
                               BeforeFirst(BeforeFirst(a, "?"), "#")))
                      kind == IF t = "profile" THEN "in" ELSE "company"
                      slug == SearchSlug(c, kind)
                  IN  IF t \in {"profile", "company"} /\ slug # <<>>
                      THEN <<"linkedin.com", "/", kind, "/">> \o slug
                      ELSE <<>>

validate_linkedin_urls(linkedin, company_linkedin) ==
    (IF normalize_linkedin_url(linkedin, "profile") = <<>>
     THEN <<"linkedin_invalid_format:" \o Join(linkedin)>> ELSE <<>>)
    \o (IF normalize_linkedin_url(company_linkedin, "company") = <<>>
        THEN <<"company_linkedin_invalid_format:" \o Join(company_linkedin)>> ELSE <<>>)

(***************************************************************************)
(* SECTION 8: duplicate checking                                           *)
(***************************************************************************)
\* hashlib.sha256(text).hexdigest(): collision-free, and never the empty text.
Sha256(s) == <<"sha256">> \o s
NoHash == <<>>

compute_email_hash(email) == Sha256(Strip(Lower(email)))

compute_linkedin_combo_hash(linkedin, company_linkedin) ==
    LET norm_profile == normalize_linkedin_url(linkedin, "profile")
        norm_company == normalize_linkedin_url(company_linkedin, "company")
    IN  IF norm_profile = <<>> \/ norm_company = <<>> THEN NoHash
        ELSE Sha256(norm_profile \o <<"||">> \o norm_company)

\* The arguments check is called with.
Emails == {<<>>, <<" ", "Ann", "@", "x.com">>, <<"bob", "@", "x.com">>}
GoodProfile == <<"https://", "www.", "linkedin.com", "/", "in", "/", "abc">>
GoodCompany == <<"linkedin.com", "/", "company", "/", "abc", "/">>
BadCompany == <<"evil.com", "/", "company", "/", "abc">>
LinkedinPairs == {<<GoodProfile, GoodCompany>>, <<GoodProfile, BadCompany>>}

E1 == compute_email_hash(<<"ann", "@", "x.com">>)
E2 == compute_email_hash(<<"bob", "@", "x.com">>)
L1 == compute_linkedin_combo_hash(GoodProfile, GoodCompany)

(* A row of the remote table transparency_log.  payload is
     "approve" / "deny"   {"final_decision": "approve" / "deny"}
     "no_decision"        an object without final_decision
     "null"               null                                             *)
Payloads == {"approve", "deny", "no_decision", "null"}
Row(eh, lh, ty, p) ==
    [email_hash |-> eh, linkedin_combo_hash |-> lh, event_type |-> ty, payload |-> p]
Fingerprints == {<<E1, NoHash>>, <<E2, L1>>}
Rows ==
    {Row(E1, NoHash, "CONSENSUS_RESULT", p) : p \in {"approve", "deny", "null"}}
    \cup {Row(E2, L1, "CONSENSUS_RESULT", p) : p \in {"approve", "no_decision", "null"}}
    \cup {Row(f[1], f[2], "SUBMISSION", "no_decision") : f \in Fingerprints}

(* The cache: two tables hash -> {decision, timestamp}.  A table that the
   loaded JSON does not hold has present = FALSE: subscripting the cache
   with its name raises KeyError.                                          *)
Table(p, e) == [present |-> p, entries |-> e]
EmptyTable == Table(TRUE, <<>>)
MissingTable == Table(FALSE, <<>>)
Entry(d, ts) == [decision |-> d, timestamp |-> ts]
Cache(et, lt, sy) == [email_hashes |-> et, linkedin_hashes |-> lt, synced_at |-> sy]
DefaultCache == Cache(EmptyTable, EmptyTable, "none")
Decisions == {"approve", "deny", "unknown"}

\* What the cache file can hold when a checker is constructed.
FileCaches ==
    {Cache(et, lt, "earlier") :
        et \in {EmptyTable} \cup {Table(TRUE, E1 :> Entry(d, 0)) : d \in {"approve", "deny"}},
        lt \in {EmptyTable} \cup {Table(TRUE, L1 :> Entry(d, 0)) : d \in {"approve", "unknown"}}}
    \cup {Cache(MissingTable, MissingTable, "none")}
File(ok, data) == [ok |-> ok, data |-> data]
NoFile == File(FALSE, DefaultCache)
Files == {NoFile} \cup {File(TRUE, c) : c \in FileCaches}

\* DuplicateChecker._load_cache: the parsed file, or the default when the
\* file is absent or does not parse.
load_cache(file) == IF file.ok THEN file.data ELSE DefaultCache

\* What check and sync_cache hand back: a value, or an exception.
Status(d, r, c, s) ==
    [raised |-> FALSE, is_duplicate |-> d, reason |-> r, can_resubmit |-> c,
     source |-> s, count |-> 0]
Raised(exc) ==
    [raised |-> TRUE, is_duplicate |-> FALSE, reason |-> exc, can_resubmit |-> FALSE,
     source |-> "none", count |-> 0]
Count(n) ==
    [raised |-> FALSE, is_duplicate |-> FALSE, reason |-> "count", can_resubmit |-> FALSE,
     source |-> "none", count |-> n]

(* How the remote collaborator behaves during one call:
     "none"            library, credentials and every query work
     "no_library"      import supabase raises ImportError
     "no_credentials"  neither SUPABASE_URL/KEY pair is set
     "q_email" / "q_linkedin" / "q_pending" / "q_sync"
                       that query raises when it is executed
     "save"            writing the cache file raises                       *)
CheckFaults == {"none", "no_library", "no_credentials", "q_email", "q_linkedin", "q_pending"}
SyncFaults == {"none", "no_library", "no_credentials", "q_sync", "save"}

\* .eq(column, h).eq("event_type", ty): the indexes of the matching rows.
RowsByEmail(lg, h, ty) ==
    {i \in 1..Len(lg) : lg[i].email_hash = h /\ lg[i].event_type = ty}
RowsByLinkedin(lg, h, ty) ==
    {i \in 1..Len(lg) : lg[i].linkedin_combo_hash = h /\ lg[i].event_type = ty}

\* Mutant: the order is ascending, the oldest row is taken.
Earliest(S) == CHOOSE i \in S : \A j \in S : i <= j

\* .order("created_at", desc=True).limit(1): the most recent of the rows.
Latest(S) == CHOOSE i \in S : \A j \in S : j <= i

(* The online branch of check.  Its outcome is
     kind = "return"     a return inside the try block, of ret
     kind = "fallback"   an exception: mode becomes offline
     kind = "through"    the try block ends without a return
   asked lists the queries that were sent, in order.                       *)
Return(st, asked) == [kind |-> "return", ret |-> st, asked |-> asked]
Fallback(asked) == [kind |-> "fallback", ret |-> Raised("none"), asked |-> asked]
Through(asked) == [kind |-> "through", ret |-> Raised("none"), asked |-> asked]

\* Mutant: a pending submission is reported, but resubmission stays allowed.
OnlinePending_Resubmit(lg, fault, email_hash, asked) ==
    IF email_hash = NoHash THEN Through(asked)
    ELSE IF fault = "q_pending" THEN Fallback(Append(asked, "q_pending"))
    ELSE IF RowsByEmail(lg, email_hash, "SUBMISSION") # {}
         THEN Return(Status(TRUE, "email_pending_processing", TRUE, "online"),
                     Append(asked, "q_pending"))
         ELSE Through(Append(asked, "q_pending"))

OnlinePending(lg, fault, email_hash, asked) ==
    IF email_hash = NoHash THEN Through(asked)
    ELSE IF fault = "q_pending" THEN Fallback(Append(asked, "q_pending"))
    ELSE IF RowsByEmail(lg, email_hash, "SUBMISSION") # {}
         THEN Return(Status(TRUE, "email_pending_processing", FALSE, "online"),
                     Append(asked, "q_pending"))
         ELSE Through(Append(asked, "q_pending"))

\* Mutant: the pending submission is looked up first, the LinkedIn combo hash
\* only when there is none.
OnlineLinkedin_PendingFirst(lg, fault, email_hash, linkedin_hash, asked) ==
    LET p == OnlinePending(lg, fault, email_hash, asked)
    IN  IF p.kind # "through" \/ linkedin_hash = NoHash THEN p
        ELSE IF fault = "q_linkedin" THEN Fallback(Append(p.asked, "q_linkedin"))
        ELSE LET data == RowsByLinkedin(lg, linkedin_hash, "CONSENSUS_RESULT")
                 asked1 == Append(p.asked, "q_linkedin")
             IN  IF data = {} THEN Through(asked1)
                 ELSE IF lg[Latest(data)].payload = "null" THEN Fallback(asked1)
                 ELSE IF lg[Latest(data)].payload = "approve"
                      THEN Return(Status(TRUE, "linkedin_combo_already_approved", FALSE,
                                         "online"), asked1)
                      ELSE Through(asked1)

OnlineLinkedin(lg, fault, email_hash, linkedin_hash, asked) ==
    IF linkedin_hash = NoHash THEN OnlinePending(lg, fault, email_hash, asked)
    ELSE IF fault = "q_linkedin" THEN Fallback(Append(asked, "q_linkedin"))
    ELSE LET data == RowsByLinkedin(lg, linkedin_hash, "CONSENSUS_RESULT")
             asked1 == Append(asked, "q_linkedin")
         IN  IF data = {} THEN OnlinePending(lg, fault, email_hash, asked1)
             ELSE IF lg[Latest(data)].payload = "null" THEN Fallback(asked1)
             ELSE IF lg[Latest(data)].payload = "approve"
                  THEN Return(Status(TRUE, "linkedin_combo_already_approved", FALSE, "online"),
                              asked1)
                  ELSE OnlinePending(lg, fault, email_hash, asked1)

OnlineEmail(lg, fault, email_hash, linkedin_hash) ==
    IF email_hash = NoHash THEN OnlineLinkedin(lg, fault, email_hash, linkedin_hash, <<>>)
    ELSE IF fault = "q_email" THEN Fallback(<<"q_email">>)
    ELSE LET data == RowsByEmail(lg, email_hash, "CONSENSUS_RESULT")
         IN  IF data = {}
             THEN OnlineLinkedin(lg, fault, email_hash, linkedin_hash, <<"q_email">>)
             ELSE IF lg[Latest(data)].payload = "null" THEN Fallback(<<"q_email">>)
             ELSE IF lg[Latest(data)].payload = "approve"
                  THEN Return(Status(TRUE, "email_already_approved", FALSE, "online"),
                              <<"q_email">>)
                  ELSE Return(Status(FALSE, "email_was_denied_can_resubmit", TRUE, "online"),
                              <<"q_email">>)

OnlineBranch(lg, fault, email_hash, linkedin_hash) ==
    IF fault = "no_library" THEN Fallback(<<>>)
    ELSE IF fault = "no_credentials" THEN Through(<<>>)
    ELSE OnlineEmail(lg, fault, email_hash, linkedin_hash)

\* The offline branch of check: the lookup in the local cache.
OfflineLinkedin(c, linkedin_hash) ==
    IF linkedin_hash = NoHash THEN Status(FALSE, "new", TRUE, "cache")
    ELSE IF ~c.linkedin_hashes.present THEN Raised("KeyError")
    ELSE IF /\ linkedin_hash \in DOMAIN c.linkedin_hashes.entries
            /\ c.linkedin_hashes.entries[linkedin_hash].decision = "approve"
         THEN Status(TRUE, "linkedin_combo_already_approved", FALSE, "cache")
         ELSE Status(FALSE, "new", TRUE, "cache")

\* Mutant: any cache entry of the email hash counts as an approval.
OfflineBranch_AnyHit(c, email_hash, linkedin_hash) ==
    IF email_hash = NoHash THEN OfflineLinkedin(c, linkedin_hash)
    ELSE IF ~c.email_hashes.present THEN Raised("KeyError")
    ELSE IF email_hash \in DOMAIN c.email_hashes.entries
         THEN Status(TRUE, "email_already_approved", FALSE, "cache")
         ELSE OfflineLinkedin(c, linkedin_hash)

OfflineBranch(c, email_hash, linkedin_hash) ==
    IF email_hash = NoHash THEN OfflineLinkedin(c, linkedin_hash)
    ELSE IF ~c.email_hashes.present THEN Raised("KeyError")
    ELSE IF email_hash \in DOMAIN c.email_hashes.entries
         THEN IF c.email_hashes.entries[email_hash].decision = "approve"
              THEN Status(TRUE, "email_already_approved", FALSE, "cache")
              ELSE Status(FALSE, "email_was_denied_can_resubmit", TRUE, "cache")
         ELSE OfflineLinkedin(c, linkedin_hash)

\* DuplicateChecker.check: the result and the mode it leaves behind.
check(m, c, lg, fault, email, linkedin, company_linkedin) ==
    LET email_hash == IF email # <<>> THEN compute_email_hash(email) ELSE NoHash
        linkedin_hash == compute_linkedin_combo_hash(linkedin, company_linkedin)
        on == IF m = "online"
              THEN OnlineBranch(lg, fault, email_hash, linkedin_hash)
              ELSE Through(<<>>)
        m2 == IF on.kind = "fallback" THEN "offline" ELSE m
    IN  [mode |-> m2, asked |-> on.asked,
         ret |-> IF on.kind = "return" THEN on.ret
                 ELSE IF m2 = "offline" THEN OfflineBranch(c, email_hash, linkedin_hash)
                 ELSE Status(FALSE, "new", TRUE, m2)]

\* One row of sync_cache's loop.  failed: the row raised (a null payload has
\* no .get; a table the cache does not hold cannot be subscripted).
MergeRow(c, row, ts, count) ==
    IF row.payload = "null" THEN [cache |-> c, count |-> count, failed |-> TRUE]
    ELSE
    LET decision == IF row.payload = "no_decision" THEN "unknown" ELSE row.payload
        info == Entry(decision, ts)
        c1 == IF row.email_hash # NoHash /\ c.email_hashes.present
              THEN [c EXCEPT !.email_hashes.entries = (row.email_hash :> info) @@ @]
              ELSE c
        count1 == IF row.email_hash # NoHash /\ c.email_hashes.present
                  THEN count + 1 ELSE count
    IN  IF row.email_hash # NoHash /\ ~c.email_hashes.present
        THEN [cache |-> c, count |-> count, failed |-> TRUE]
        ELSE IF row.linkedin_combo_hash = NoHash
        THEN [cache |-> c1, count |-> count1, failed |-> FALSE]
        ELSE IF ~c.linkedin_hashes.present
        THEN [cache |-> c1, count |-> count1, failed |-> TRUE]
        ELSE [cache |->
                [c1 EXCEPT !.linkedin_hashes.entries = (row.linkedin_combo_hash :> info) @@ @],
              count |-> count1, failed |-> FALSE]

\* for record in result.data: order is the order the remote returned the rows in.
RECURSIVE MergeRows(_, _, _, _)
MergeRows(c, lg, order, count) ==
    IF order = <<>> THEN [cache |-> c, count |-> count, failed |-> FALSE]
    ELSE LET r == MergeRow(c, lg[Head(order)], Head(order), count)
         IN  IF r.failed THEN r ELSE MergeRows(r.cache, lg, Tail(order), r.count)

\* The orders a set of row indexes can be returned in.
Orders(S) ==
    {o \in [1..Cardinality(S) -> S] : \A i, j \in DOMAIN o : i # j => o[i] # o[j]}

\* .eq("event_type", "CONSENSUS_RESULT").gte("created_at", since)
RecentConsensus(lg, since) ==
    {i \in 1..Len(lg) : lg[i].event_type = "CONSENSUS_RESULT" /\ i >= since}

\* DuplicateChecker.sync_cache: the cache, the cache file and the result.
sync_cache(c, file, lg, fault, order) ==
    IF fault \in {"no_library", "no_credentials", "q_sync"}
    THEN [cache |-> c, file |-> file, ret |-> Count(0)]
    ELSE LET r == MergeRows(c, lg, order, 0)
             synced == [r.cache EXCEPT !.synced_at = "now"]
         IN  IF r.failed THEN [cache |-> r.cache, file |-> file, ret |-> Count(0)]
             ELSE IF fault = "save"
             THEN [cache |-> synced, file |-> file, ret |-> Count(0)]
             ELSE [cache |-> synced, file |-> File(TRUE, synced), ret |-> Count(r.count)]

(***************************************************************************)
(* SECTION 9: scoring preview                                              *)
(***************************************************************************)
\* part in text, for two strings.
In(p, text) == p = "" \/ p = text \/ <<text, p>> \in Inside

\* str(value).lower().strip() if value else ""
LowerStrip(v) == Join(Lower(Strip(v)))

role_expansions ==
    <<[full |-> "chief executive officer", abbr |-> "ceo"],
      [full |-> "chief technology officer", abbr |-> "cto"],
      [full |-> "chief operating officer", abbr |-> "coo"],
      [full |-> "chief financial officer", abbr |-> "cfo"],
      [full |-> "chief marketing officer", abbr |-> "cmo"],
      [full |-> "chief information officer", abbr |-> "cio"],
      [full |-> "chief scientific officer", abbr |-> "cso"],
      [full |-> "chief risk officer", abbr |-> "cro"],
      [full |-> "chief compliance officer", abbr |-> "cco"],
      [full |-> "chief product officer", abbr |-> "cpo"],
      [full |-> "chief ai officer", abbr |-> "caio"],
      [full |-> "chief data officer", abbr |-> "cdo"],
      [full |-> "vice president", abbr |-> "vp"]>>

\* role_expanded, as a text: the role, and behind it the abbreviation of the
\* last expansion whose full form the role holds.
RoleExpanded(role_lower) ==
    LET hits == {i \in DOMAIN role_expansions : In(role_expansions[i].full, role_lower)}
        i == CHOOSE i \in hits : \A k \in hits : k <= i
    IN  IF hits = {} THEN <<role_lower>> ELSE <<role_lower, " ", role_expansions[i].abbr>>

\* The body of `for icp in ICP_DEFINITIONS`: the definition is not skipped.
IcpMatches(icp, sub_lower, role_lower, country_lower, city_lower) ==
    /\ \E sub \in Range(icp.sub_industries) :
          sub_lower = sub \/ In(sub_lower, sub) \/ In(sub, sub_lower)
    /\ \E r \in Range(icp.roles) :
          In(r, role_lower) \/ Contains(RoleExpanded(role_lower), r)
    /\ "regions" \in DOMAIN icp =>
          \E r \in Range(icp.regions) : In(r, country_lower) \/ In(r, city_lower)

\* Mutant: the last matching definition wins.
check_icp_match_LastWins(sub_industry, role, country, city) ==
    LET hits == {i \in DOMAIN ICP_DEFINITIONS :
                    IcpMatches(ICP_DEFINITIONS[i], LowerStrip(sub_industry), LowerStrip(role),
                               LowerStrip(country), LowerStrip(city))}
        i == CHOOSE i \in hits : \A k \in hits : k <= i
    IN  IF hits = {} THEN [matches |-> FALSE, icp_name |-> "None", bonus |-> 0]
        ELSE [matches |-> TRUE, icp_name |-> ICP_DEFINITIONS[i].name, bonus |-> 50]

check_icp_match(sub_industry, role, country, city) ==
    LET hits == {i \in DOMAIN ICP_DEFINITIONS :
                    IcpMatches(ICP_DEFINITIONS[i], LowerStrip(sub_industry), LowerStrip(role),
                               LowerStrip(country), LowerStrip(city))}
        i == CHOOSE i \in hits : \A k \in hits : i <= k
    IN  IF hits = {} THEN [matches |-> FALSE, icp_name |-> "None", bonus |-> 0]
        ELSE [matches |-> TRUE, icp_name |-> ICP_DEFINITIONS[i].name, bonus |-> 50]

is_major_hub(city, country) ==
    \E hub \in MAJOR_HUBS_BY_COUNTRY :
        /\ In(hub.country, LowerStrip(country)) \/ In(LowerStrip(country), hub.country)
        /\ LowerStrip(city) \in hub.cities

parse_employee_count(count_str) ==
    CASE count_str = "0-1" -> <<0, 1>>
      [] count_str = "2-10" -> <<2, 10>>
      [] count_str = "11-50" -> <<11, 50>>
      [] count_str = "51-200" -> <<51, 200>>
      [] count_str = "201-500" -> <<201, 500>>
      [] count_str = "501-1,000" -> <<501, 1000>>
      [] count_str = "1,001-5,000" -> <<1001, 5000>>
      [] count_str = "5,001-10,000" -> <<5001, 10000>>
      [] count_str = "10,001+" -> <<10001, 100000>>
      [] OTHER -> <<0, 0>>

\* Mutant: one penalty for every company of more than 1,000 employees.
calculate_size_adjustment_FlatPenalty(employee_count, city, country) ==
    IF Join(employee_count) \notin Range(VALID_EMPLOYEE_COUNTS)
    THEN <<0, "no_employee_count">>
    ELSE LET emp == parse_employee_count(Join(employee_count))
         IN  IF emp[2] <= 10 /\ is_major_hub(city, country)
             THEN <<50, "small_company_major_hub (<=10 employees in " \o Join(city) \o ")">>
             ELSE IF emp[2] <= 50 THEN <<20, "small_company (<=50 employees)">>
             ELSE IF emp[1] > 1000 THEN <<-10, "large_company_penalty (>1k employees)">>
             ELSE <<0, "mid_size_company">>

calculate_size_adjustment(employee_count, city, country) ==
    IF employee_count = <<>> \/ Join(employee_count) \notin Range(VALID_EMPLOYEE_COUNTS)
    THEN <<0, "no_employee_count">>
    ELSE LET emp_min == parse_employee_count(Join(employee_count))[1]
             emp_max == parse_employee_count(Join(employee_count))[2]
         IN  IF emp_max <= 10 /\ is_major_hub(city, country)
             THEN <<50, "small_company_major_hub (<=10 employees in " \o Join(city) \o ")">>
             ELSE IF emp_max <= 50 THEN <<20, "small_company (<=50 employees)">>
             ELSE IF 5000 < emp_min /\ emp_min < 10001
             THEN <<-15, "large_company_penalty (5k-10k employees)">>
             ELSE IF emp_min > 1000 THEN <<-10, "large_company_penalty (>1k employees)">>
             ELSE <<0, "mid_size_company">>

Min(a, b) == IF a <= b THEN a ELSE b
Max(a, b) == IF a >= b THEN a ELSE b

ScorePreview(icp, size, total_adjustment) ==
    [icp_match |-> icp.matches,
     icp_name |-> icp.icp_name,
     icp_bonus |-> icp.bonus,
     size_adjustment |-> size[1],
     size_reason |-> size[2],
     estimated_adjustment |-> total_adjustment,
     recommendations |->
        (IF ~icp.matches
         THEN <<"Consider targeting ICP categories for +50 bonus">> ELSE <<>>)
        \o (IF size[1] < 0
            THEN <<"Large companies receive penalties - consider smaller targets">>
            ELSE <<>>)
        \o (IF size[1] = 0 /\ ~icp.matches
            THEN <<"Small companies (<=50 employees) receive +20 bonus">> ELSE <<>>)]

\* Mutant: the bonus is not capped.
preview_score_Uncapped(l) ==
    LET icp == check_icp_match(Get(l, "sub_industry"), Get(l, "role"),
                               Get(l, "country"), Get(l, "city"))
        size == calculate_size_adjustment(Get(l, "employee_count"), Get(l, "city"),
                                          Get(l, "country"))
    IN  ScorePreview(icp, size, icp.bonus + size[1])

preview_score(l) ==
    LET icp == check_icp_match(Get(l, "sub_industry"), Get(l, "role"),
                               Get(l, "country"), Get(l, "city"))
        size == calculate_size_adjustment(Get(l, "employee_count"), Get(l, "city"),
                                          Get(l, "country"))
        total_bonus == Min(50, icp.bonus + Max(0, size[1]))
        total_adjustment == IF size[1] < 0 THEN total_bonus + size[1] ELSE total_bonus
    IN  ScorePreview(icp, size, total_adjustment)

(***************************************************************************)
(* SECTION 10: the audit                                                   *)
(***************************************************************************)
\* Mutant: warnings block as well.
AuditResult_WarningsBlock(passed, blocking_errors, warnings, duplicate_status) ==
    [raised |-> FALSE, passed |-> passed /\ warnings = <<>>,
     blocking_errors |-> blocking_errors, warnings |-> warnings,
     duplicate_status |-> duplicate_status]

\* What audit_lead hands back: an AuditResult, or the exception of a stage.
\* (score_preview, a function of the lead alone, is not part of it here.)
AuditResult(passed, blocking_errors, warnings, duplicate_status) ==
    [raised |-> FALSE, passed |-> passed, blocking_errors |-> blocking_errors,
     warnings |-> warnings, duplicate_status |-> duplicate_status]
AuditRaised(exc) ==
    [raised |-> TRUE, passed |-> FALSE, blocking_errors |-> <<>>, warnings |-> <<>>,
     duplicate_status |-> Raised(exc)]

\* The collaborators of one audit.
Setup(fault, net, taxonomy) == [fault |-> fault, net |-> net, taxonomy |-> taxonomy]

\* checker = DuplicateChecker(mode=duplicate_mode); checker.check(...)
\* check hands a non-empty email to compute_email_hash, whose email.lower()
\* raises for a number.
DuplicateStage(l, dmode, file, lg, fault) ==
    IF Get(l, "email") = JsonNumber THEN Raised("AttributeError")
    ELSE check(dmode, load_cache(file), lg, fault,
               Get(l, "email"), Get(l, "linkedin"), Get(l, "company_linkedin")).ret

\* What validate_network_checks raises ahead of its try blocks: `'@' in email`
\* for an email that is a number, website.lower() for such a website.
NetworkRaises(website, email) ==
    IF email = JsonNumber THEN "TypeError"
    ELSE IF website = JsonNumber THEN "AttributeError"
    ELSE "none"

\* if dup_status["is_duplicate"] and not dup_status["can_resubmit"]: ...
DuplicateError(dup_status) ==
    IF dup_status.is_duplicate /\ ~dup_status.can_resubmit
    THEN <<"duplicate:" \o dup_status.reason>> ELSE <<>>

\* lead.get("region", lead.get("state", ""))
Region(l) == IF l["region"] = Absent THEN Get(l, "state") ELSE l["region"]

\* Mutant: the audit stops at the first stage that reports.
audit_lead_FailFast(l, dmode, run_checks, file, lg, env) ==
    LET dup_status == DuplicateStage(l, dmode, file, lg, env.fault)
    IN  IF validate_attestation(l) # <<>>
        THEN {AuditResult(FALSE, validate_attestation(l), <<>>, dup_status)}
        ELSE IF validate_required_fields(l) # <<>>
        THEN {AuditResult(FALSE, validate_required_fields(l), <<>>, dup_status)}
        ELSE {AuditResult(DuplicateError(dup_status) = <<>>, DuplicateError(dup_status),
                          <<>>, dup_status)}

\* The results one call of audit_lead can return: one for each list that
\* validate_location can return.
audit_lead(l, dmode, run_checks, file, lg, env) ==
    LET warnings ==
            (IF run_checks
             THEN validate_network_checks(Get(l, "website"), Get(l, "email"), env.net)
             ELSE <<>>)
            \o validate_description(Get(l, "description")).warnings
        dup_status == DuplicateStage(l, dmode, file, lg, env.fault)
        net_raised ==
            IF run_checks THEN NetworkRaises(Get(l, "website"), Get(l, "email")) ELSE "none"
    IN  IF net_raised # "none" THEN {AuditRaised(net_raised)}
        ELSE IF dup_status.raised THEN {AuditRaised(dup_status.reason)}
        ELSE {LET blocking_errors ==
                      validate_attestation(l)
                      \o validate_required_fields(l)
                      \o validate_source_provenance(l)
                      \o validate_role(Get(l, "role"))
                      \o validate_description(Get(l, "description")).errors
                      \o validate_email(Get(l, "email"), Get(l, "first"), Get(l, "last"))
                      \o validate_employee_count(Get(l, "employee_count"))
                      \o validate_industry_pair(Get(l, "industry"), Get(l, "sub_industry"),
                                                env.taxonomy)
                      \o validate_linkedin_urls(Get(l, "linkedin"),
                                                Get(l, "company_linkedin"))
                      \o location
                      \o DuplicateError(dup_status)
              IN  AuditResult(blocking_errors = <<>>, blocking_errors, warnings, dup_status) :
              location \in validate_location(Get(l, "city"), Get(l, "country"), Region(l))}

(***************************************************************************)
(* Inputs of the audit                                                     *)
(***************************************************************************)
(* A lead that passes every stage, in an environment where every            *)
(* collaborator works, and the ways a lead or an environment departs from   *)
(* it.  An audited pair departs in at most MaxDeviations ways.              *)
Deviations ==
    {"no_wallet", "license_refused", "no_source_url", "restricted_source",
     "licensed_resale", "two_titles", "role_typo", "short_description",
     "role_mailbox", "colleague_email", "bad_headcount", "other_sub_industry",
     "foreign_company_url", "city_repeats", "city_garbage", "us_lead",
     "no_taxonomy", "online", "cached_approval", "cache_without_tables",
     "pending_submission", "approved_remotely", "no_library", "no_credentials",
     "skip_network_checks", "no_dns_library", "mx_raises", "dbl_listed",
     "young_domain", "site_404", "blank_wallet", "no_terms", "lawful_absent",
     "unrestricted_number", "license_text", "email_number", "website_number"}

RECURSIVE SubsetsUpTo(_, _)
SubsetsUpTo(S, k) ==
    IF k = 0 THEN {{}}
    ELSE LET P == SubsetsUpTo(S, k - 1) IN P \cup {p \cup {x} : p \in P, x \in S}

LeadOf(D) ==
    [business |-> <<"acme">>,
     full_name |-> <<"ann", " ", "lee">>,
     first |-> <<"ann">>,
     last |-> <<"lee">>,
     email |-> IF "email_number" \in D THEN JsonNumber
               ELSE IF "role_mailbox" \in D THEN <<"info", "@", "gmail.com">>
               ELSE IF "colleague_email" \in D THEN <<"bob", "@", "x.com">>
               ELSE <<"ann", "@", "x.com">>,
     role |-> IF "two_titles" \in D THEN <<"ceo", ",", " ", "cfo">>
              ELSE IF "role_typo" \in D THEN <<"sales", " ", "manger">>
              ELSE <<"cto">>,
     website |-> IF "website_number" \in D THEN JsonNumber ELSE <<"https://", "acme.com">>,
     industry |-> <<"Software">>,
     sub_industry |-> IF "other_sub_industry" \in D THEN <<"Farming">>
                      ELSE <<"Machine", " ", "Learning">>,
     country |-> IF "us_lead" \in D THEN <<"usa">> ELSE <<"france">>,
     city |-> IF "city_repeats" \in D
              THEN <<"alpha", " ", "alpha", " ", "betas", " ", "betas">>
              ELSE IF "city_garbage" \in D THEN <<"the", " ", "software">>
              ELSE <<"paris">>,
     state |-> Absent,
     region |-> Absent,
     linkedin |-> GoodProfile,
     company_linkedin |-> IF "foreign_company_url" \in D THEN BadCompany ELSE GoodCompany,
     source_url |-> IF "no_source_url" \in D THEN Absent
                    ELSE IF "restricted_source" \in D
                    THEN <<"https://", "zoominfo.com", "/", "x">>
                    ELSE <<"https://", "acme.com">>,
     description |->
        IF "short_description" \in D THEN <<"short", " ", "text">>
        ELSE <<"acme", " ", "builds", " ", "machine", " ", "learning", " ", "tools", " ",
               "for", " ", "industrial", " ", "energy", " ", "operators", " ",
               "worldwide">>,
     employee_count |-> IF "bad_headcount" \in D THEN <<"5">> ELSE <<"51-200">>,
     source_type |-> IF "licensed_resale" \in D THEN <<"licensed_resale">>
                     ELSE <<"company_site">>,
     license_doc_hash |-> Absent,
     wallet_ss58 |-> IF "no_wallet" \in D THEN Absent
                     ELSE IF "blank_wallet" \in D THEN <<" ">> ELSE <<"5Grw">>,
     terms_version_hash |-> IF "no_terms" \in D THEN Absent ELSE <<"abc">>,
     lawful_collection |-> IF "lawful_absent" \in D THEN Absent ELSE JsonTrue,
     no_restricted_sources |-> IF "unrestricted_number" \in D THEN JsonNumber ELSE JsonTrue,
     license_granted |-> IF "license_refused" \in D THEN JsonFalse
                         ELSE IF "license_text" \in D THEN <<"true">> ELSE JsonTrue]

SetupOf(D) ==
    Setup(IF "no_library" \in D THEN "no_library"
          ELSE IF "no_credentials" \in D THEN "no_credentials" ELSE "none",
          Net(IF "no_dns_library" \in D THEN "missing"
              ELSE IF "mx_raises" \in D THEN "raises" ELSE "found",
              "dbl_listed" \in D,
              "dated",
              IF "young_domain" \in D THEN 3 ELSE 4000,
              "answers",
              IF "site_404" \in D THEN 404 ELSE 200),
          IF "no_taxonomy" \in D THEN NoTaxonomy ELSE Taxonomy)

FileOf(D) ==
    IF "cache_without_tables" \in D
    THEN File(TRUE, Cache(MissingTable, MissingTable, "none"))
    ELSE IF "cached_approval" \in D
    THEN File(TRUE, Cache(Table(TRUE, E1 :> Entry("approve", 0)), EmptyTable, "earlier"))
    ELSE NoFile

LogOf(D) ==
    (IF "approved_remotely" \in D
     THEN <<Row(E1, NoHash, "CONSENSUS_RESULT", "approve")>> ELSE <<>>)
    \o (IF "pending_submission" \in D
        THEN <<Row(E1, NoHash, "SUBMISSION", "no_decision")>> ELSE <<>>)

NoResult == AuditRaised("none")

AuditIdle ==
    /\ lead = LeadOf({})
    /\ duplicate_mode = "offline"
    /\ run_network_checks = FALSE
    /\ setup = SetupOf({})
    /\ result1 = NoResult
    /\ result2 = NoResult
    /\ apc = "idle"

CallIdle ==
    /\ fname = "none"
    /\ fargs = <<>>
    /\ fret = <<>>
    /\ cpc = "idle"
    /\ _TAXONOMY_CACHE = NotLoaded
    /\ taxonomy_opens = 0

(***************************************************************************)
(* Inputs of the canonicalizer: [scheme] [www.] host path [?query|#frag]   *)
(***************************************************************************)
UrlSchemes == {<<>>, <<"https://">>, <<"http://">>}
UrlWww == {<<>>, <<"www.">>}
UrlHosts == {<<"linkedin.com">>, <<"LinkedIn.com">>, <<"evil.com">>}
PathToks == {"/", "in", "company", "abc", " "}
UrlTails == {<<>>, <<"?", "abc">>, <<"#", "abc">>}
\* URLs of a foreign host whose name begins with linkedin.com, or whose
\* userinfo is linkedin.com, and whose path quotes a LinkedIn address.
LookalikeUrls ==
    {s \o w \o h \o <<"/", "linkedin.com", "/", k, "/", "abc">> :
        s \in UrlSchemes, w \in UrlWww,
        h \in {<<"linkedin.com", ".evil.com">>, <<"linkedin.com", "@", "evil.com">>},
        k \in {"in", "company"}}
UrlInputs ==
    {<<>>} \cup
    {s \o w \o h \o p \o q :
        s \in UrlSchemes, w \in UrlWww, h \in UrlHosts,
        p \in SeqUpTo(PathToks, MaxPathLen), q \in UrlTails}
    \cup LookalikeUrls
UrlTypes == {"profile", "company"}

(***************************************************************************)
(* Specification SpecDup: one DuplicateChecker, the remote log growing,    *)
(* and calls of check and sync_cache                                       *)
(***************************************************************************)
Modes == {"online", "offline"}
Call(op, eh, lh, m, fault, asked, ret) ==
    [op |-> op, email_hash |-> eh, linkedin_hash |-> lh, mode |-> m,
     fault |-> fault, asked |-> asked, ret |-> ret]
Idle == Call("none", NoHash, NoHash, "none", "none", <<>>, Raised("none"))

NormIdle ==
    /\ url = <<>>
    /\ url_type = "profile"
    /\ norm1 = <<>>
    /\ norm2 = <<>>
    /\ npc = "idle"

InitDup ==
    /\ NormIdle
    /\ AuditIdle
    /\ CallIdle
    /\ log = <<>>
    /\ cacheFile \in Files
    /\ mode \in Modes
    /\ cache = load_cache(cacheFile)
    /\ last = Idle

\* The gateway or the validators append a row to the transparency log.
RemoteAppend ==
    /\ last = Idle
    /\ Len(log) < MaxLog
    /\ \E r \in Rows : log' = Append(log, r)
    /\ last' = Idle
    /\ UNCHANGED <<cacheFile, cache, mode>>
    /\ UNCHANGED normVars
    /\ UNCHANGED auditVars
    /\ UNCHANGED callVars

\* DuplicateChecker(mode=m)
NewChecker ==
    /\ last = Idle
    /\ \E m \in Modes : mode' = m
    /\ cache' = load_cache(cacheFile)
    /\ last' = Idle
    /\ UNCHANGED <<log, cacheFile>>
    /\ UNCHANGED normVars
    /\ UNCHANGED auditVars
    /\ UNCHANGED callVars

\* Mutant: check remembers an approval the remote log gave it in the cache.
Check_RemembersApproval ==
    /\ last = Idle
    /\ \E email \in Emails, li \in LinkedinPairs, fault \in CheckFaults :
          /\ mode = "offline" => fault = "none"
          /\ LET r == check(mode, cache, log, fault, email, li[1], li[2])
                 eh == IF email # <<>> THEN compute_email_hash(email) ELSE NoHash
             IN  /\ mode' = r.mode
                 /\ last' = Call("check", eh, compute_linkedin_combo_hash(li[1], li[2]),
                                 mode, fault, r.asked, r.ret)
                 /\ cache' = IF /\ ~r.ret.raised
                                /\ r.ret.reason = "email_already_approved"
                                /\ r.ret.source = "online"
                                /\ cache.email_hashes.present
                             THEN [cache EXCEPT !.email_hashes.entries =
                                                   (eh :> Entry("approve", 0)) @@ @]
                             ELSE cache
    /\ UNCHANGED <<log, cacheFile>>
    /\ UNCHANGED normVars
    /\ UNCHANGED auditVars
    /\ UNCHANGED callVars

\* checker.check(email, linkedin, company_linkedin)
Check ==
    /\ last = Idle
    /\ \E email \in Emails, li \in LinkedinPairs, fault \in CheckFaults :
          /\ mode = "offline" => fault = "none"
          /\ LET r == check(mode, cache, log, fault, email, li[1], li[2])
             IN  /\ mode' = r.mode
                 /\ last' = Call("check",
                                 IF email # <<>> THEN compute_email_hash(email) ELSE NoHash,
                                 compute_linkedin_combo_hash(li[1], li[2]),
                                 mode, fault, r.asked, r.ret)
    /\ UNCHANGED <<log, cacheFile, cache>>
    /\ UNCHANGED normVars
    /\ UNCHANGED auditVars
    /\ UNCHANGED callVars

\* checker.sync_cache(since_hours)
SyncCache ==
    /\ last = Idle
    /\ \E fault \in SyncFaults, since \in 1..(Len(log) + 1) :
          \E order \in Orders(RecentConsensus(log, since)) :
             LET r == sync_cache(cache, cacheFile, log, fault, order)
             IN  /\ cache' = r.cache
                 /\ cacheFile' = r.file
                 /\ last' = Call("sync", NoHash, NoHash, mode, fault, order, r.ret)
    /\ UNCHANGED <<log, mode>>
    /\ UNCHANGED normVars
    /\ UNCHANGED auditVars
    /\ UNCHANGED callVars

\* The caller takes the result; the checker is ready for the next call.
TakeResult ==
    /\ last # Idle
    /\ last' = Idle
    /\ UNCHANGED <<log, cacheFile, cache, mode>>
    /\ UNCHANGED normVars
    /\ UNCHANGED auditVars
    /\ UNCHANGED callVars

NextDup == RemoteAppend \/ NewChecker \/ Check \/ TakeResult

SpecDup == InitDup /\ [][NextDup]_vars

(***************************************************************************)
(* Specification SpecSync: SpecDup with sync_cache, started from a cache   *)
(* file that is absent, that lacks the tables, or that an earlier sync     *)
(* wrote                                                                   *)
(***************************************************************************)
SyncFiles ==
    {NoFile,
     File(TRUE, Cache(MissingTable, MissingTable, "none")),
     File(TRUE, Cache(Table(TRUE, E1 :> Entry("deny", 0)),
                      Table(TRUE, L1 :> Entry("approve", 0)), "earlier"))}

InitSync == InitDup /\ cacheFile \in SyncFiles

NextSync == NextDup \/ SyncCache

SpecSync == InitSync /\ [][NextSync]_vars

DupIdle ==
    /\ log = <<>>
    /\ cacheFile = NoFile
    /\ cache = DefaultCache
    /\ mode = "offline"
    /\ last = Idle

(***************************************************************************)
(* Specification SpecNorm: the canonicalizer applied to its own output     *)
(***************************************************************************)
InitNorm ==
    /\ DupIdle
    /\ AuditIdle
    /\ CallIdle
    /\ url \in UrlInputs
    /\ url_type \in UrlTypes
    /\ norm1 = <<>>
    /\ norm2 = <<>>
    /\ npc = "start"

NormalizeOnce ==
    /\ npc = "start"
    /\ norm1' = normalize_linkedin_url(url, url_type)
    /\ npc' = "once"
    /\ UNCHANGED <<url, url_type, norm2>>
    /\ UNCHANGED dupVars
    /\ UNCHANGED auditVars
    /\ UNCHANGED callVars

NormalizeAgain ==
    /\ npc = "once"
    /\ norm2' = normalize_linkedin_url(norm1, url_type)
    /\ npc' = "twice"
    /\ UNCHANGED <<url, url_type, norm1>>
    /\ UNCHANGED dupVars
    /\ UNCHANGED auditVars
    /\ UNCHANGED callVars

NextNorm == NormalizeOnce \/ NormalizeAgain

SpecNorm == InitNorm /\ [][NextNorm]_vars

(***************************************************************************)
(* Specification SpecAudit: one lead and one environment, audited twice    *)
(***************************************************************************)
InitAudit ==
    /\ NormIdle
    /\ CallIdle
    /\ cache = DefaultCache
    /\ mode = "offline"
    /\ last = Idle
    /\ \E D \in SubsetsUpTo(Deviations, MaxDeviations) :
          /\ lead = LeadOf(D)
          /\ duplicate_mode = (IF "online" \in D THEN "online" ELSE "offline")
          /\ run_network_checks = ("skip_network_checks" \notin D)
          /\ setup = SetupOf(D)
          /\ cacheFile = FileOf(D)
          /\ log = LogOf(D)
    /\ result1 = NoResult
    /\ result2 = NoResult
    /\ apc = "start"

\* audit_lead(lead, duplicate_mode, run_network_checks), in a process of its own:
\* the first call fills result1, the second one result2.
AuditLead ==
    /\ apc \in {"start", "once"}
    /\ \E r \in audit_lead(lead, duplicate_mode, run_network_checks, cacheFile, log, setup) :
          IF apc = "start"
          THEN result1' = r /\ apc' = "once" /\ UNCHANGED result2
          ELSE result2' = r /\ apc' = "twice" /\ UNCHANGED result1
    /\ UNCHANGED <<lead, duplicate_mode, run_network_checks, setup>>
    /\ UNCHANGED dupVars
    /\ UNCHANGED normVars
    /\ UNCHANGED callVars

NextAudit == AuditLead

SpecAudit == InitAudit /\ [][NextAudit]_vars

(***************************************************************************)
(* Specification SpecCall: one call of one function on one input           *)
(***************************************************************************)
\* Roles: words, two of them misspellings of manager, one a misspelling of
\* director, one a longer word that holds a misspelling; spaces and commas.
RoleToks == {"Sales", "Manger", "mnager", "mangerial", "directer", " ", ","}
Roles == SeqUpTo(RoleToks, MaxRoleLen)

\* Leads to score: the valid lead with its sub-industry, role, country, city
\* and employee count replaced.
ScoreLeads ==
    {[LeadOf({}) EXCEPT !.sub_industry = sub, !.role = role, !.country = country,
                        !.city = city, !.employee_count = employee_count] :
        sub \in {<<>>, <<"Machine Learning">>, <<"learning">>, <<"farming">>, <<"hotel">>,
                 <<"plumbing">>},
        role \in {<<>>, <<"CTO">>, <<"Chief Technology Officer">>, <<"Director">>,
                  <<"Owner">>, <<"Nurse">>},
        country \in {<<>>, <<"France">>, <<"United States">>, <<"usa">>, <<"Kenya">>},
        city \in {<<>>, <<"Paris">>, <<"Houston">>, <<"Lyon">>},
        employee_count \in {<<c>> : c \in Range(VALID_EMPLOYEE_COUNTS)} \cup {<<>>, <<"12">>}}

\* Industry pairs, and the taxonomy file they are validated against.
IndustryPairs ==
    [industry : {<<>>, <<" ">>, <<"Software">>, <<"agriculture">>},
     sub_industry : {<<>>, <<"Machine", " ", "Learning">>, <<"Farming">>, <<"plumbing">>},
     file : TaxonomyFiles]

(* Leads for validate_required_fields: the valid lead with its country, state
   and region replaced, and with at most one more field absent or blank,
   a required one or the wallet.                                           *)
RequiredLeads ==
    {[[LeadOf({}) EXCEPT !.state = state, !.region = region, !.country = country]
         EXCEPT ![field] = IF value = <<"kept">> THEN @ ELSE value] :
        state \in {Absent, <<"TX">>, <<" ">>},
        region \in {Absent, <<"TX">>},
        country \in {<<"france">>, <<"usa">>, <<"United States">>, <<"Australia">>},
        field \in Range(REQUIRED_FIELDS) \cup {"wallet_ss58"},
        value \in {<<"kept">>, Absent, <<" ">>}}

\* Arguments of check_icp_match; one role holds two titles of the expansion
\* table.
IcpInputs ==
    [sub_industry : {<<>>, <<"Machine Learning">>, <<"learning">>, <<"farming">>, <<"hotel">>,
                     <<"plumbing">>},
     role : {<<>>, <<"CTO">>, <<"Chief Technology Officer">>,
             <<"Chief Technology Officer and Vice President">>, <<"Director">>, <<"Owner">>,
             <<"Nurse">>},
     country : {<<>>, <<"France">>, <<"United States">>, <<"usa">>, <<"Kenya">>},
     city : {<<>>, <<"Paris">>, <<"Houston">>, <<"Lyon">>}]

InitCall ==
    /\ NormIdle
    /\ DupIdle
    /\ AuditIdle
    /\ \/ fname = "validate_role" /\ fargs \in Roles
       \/ fname = "preview_score" /\ fargs \in ScoreLeads
       \/ fname = "validate_industry_pair" /\ fargs \in IndustryPairs
       \/ fname = "load_industry_taxonomy" /\ fargs \in TaxonomyFiles
       \/ fname = "check_icp_match" /\ fargs \in IcpInputs
       \/ fname = "validate_required_fields" /\ fargs \in RequiredLeads
    /\ fret = <<>>
    /\ cpc = "start"
    /\ _TAXONOMY_CACHE = NotLoaded
    /\ taxonomy_opens = 0

CallValidateRole ==
    /\ cpc = "start"
    /\ fname = "validate_role"
    /\ fret' = validate_role(fargs)
    /\ cpc' = "done"
    /\ UNCHANGED <<fname, fargs, _TAXONOMY_CACHE, taxonomy_opens>>
    /\ UNCHANGED <<normVars, dupVars, auditVars>>

CallPreviewScore ==
    /\ cpc = "start"
    /\ fname = "preview_score"
    /\ fret' = preview_score(fargs)
    /\ cpc' = "done"
    /\ UNCHANGED <<fname, fargs, _TAXONOMY_CACHE, taxonomy_opens>>
    /\ UNCHANGED <<normVars, dupVars, auditVars>>

CallValidateRequiredFields ==
    /\ cpc = "start"
    /\ fname = "validate_required_fields"
    /\ fret' = validate_required_fields(fargs)
    /\ cpc' = "done"
    /\ UNCHANGED <<fname, fargs, _TAXONOMY_CACHE, taxonomy_opens>>
    /\ UNCHANGED <<normVars, dupVars, auditVars>>

CallCheckIcpMatch ==
    /\ cpc = "start"
    /\ fname = "check_icp_match"
    /\ fret' = check_icp_match(fargs.sub_industry, fargs.role, fargs.country, fargs.city)
    /\ cpc' = "done"
    /\ UNCHANGED <<fname, fargs, _TAXONOMY_CACHE, taxonomy_opens>>
    /\ UNCHANGED <<normVars, dupVars, auditVars>>

\* validate_industry_pair(industry, sub_industry), first call of the process
CallValidateIndustryPair ==
    /\ cpc = "start"
    /\ fname = "validate_industry_pair"
    /\ LET r == LoadTaxonomy(_TAXONOMY_CACHE, fargs.file)
       IN  /\ fret' = validate_industry_pair(fargs.industry, fargs.sub_industry, r.ret)
           /\ _TAXONOMY_CACHE' = r.memo
           /\ taxonomy_opens' = taxonomy_opens + (IF r.opened THEN 1 ELSE 0)
    /\ cpc' = "done"
    /\ UNCHANGED <<fname, fargs>>
    /\ UNCHANGED <<normVars, dupVars, auditVars>>

(* A process that calls load_industry_taxonomy up to MaxLoads times (each
   validate_industry_pair starts with such a call); fret lists what the
   calls returned.  Between two calls the taxonomy file can be replaced.   *)
CallLoadIndustryTaxonomy ==
    /\ fname = "load_industry_taxonomy"
    /\ Len(fret) < MaxLoads
    /\ LET r == LoadTaxonomy(_TAXONOMY_CACHE, fargs)
       IN  /\ fret' = Append(fret, r.ret)
           /\ _TAXONOMY_CACHE' = r.memo
           /\ taxonomy_opens' = taxonomy_opens + (IF r.opened THEN 1 ELSE 0)
    /\ cpc' = "done"
    /\ UNCHANGED <<fname, fargs>>
    /\ UNCHANGED <<normVars, dupVars, auditVars>>

TaxonomyFileReplaced ==
    /\ fname = "load_industry_taxonomy"
    /\ Len(fret) < MaxLoads
    /\ \E file \in TaxonomyFiles \ {fargs} : fargs' = file
    /\ UNCHANGED <<fname, fret, cpc, _TAXONOMY_CACHE, taxonomy_opens>>
    /\ UNCHANGED <<normVars, dupVars, auditVars>>

NextCall ==
    \/ CallValidateRole
    \/ CallPreviewScore
    \/ CallCheckIcpMatch
    \/ CallValidateRequiredFields
    \/ CallValidateIndustryPair
    \/ CallLoadIndustryTaxonomy
    \/ TaxonomyFileReplaced

SpecCall == InitCall /\ [][NextCall]_vars

(***************************************************************************)
(* What the claims about check read off the state                          *)
(***************************************************************************)
Checked == last.op = "check" /\ ~last.ret.raised
IsDup(st) == st.is_duplicate /\ ~st.can_resubmit
Resubmittable(st) == ~st.is_duplicate /\ st.can_resubmit

\* The decision a table of the cache holds for a hash, "absent" when none.
Cached(t, h) ==
    IF h # NoHash /\ t.present /\ h \in DOMAIN t.entries THEN t.entries[h].decision
    ELSE "absent"
CachedEmail == Cached(cache.email_hashes, last.email_hash)
CachedLinkedin == Cached(cache.linkedin_hashes, last.linkedin_hash)

\* The rows of the remote log about the hashes of the last call.
EmailDecisions == RowsByEmail(log, last.email_hash, "CONSENSUS_RESULT")
LinkedinDecisions == RowsByLinkedin(log, last.linkedin_hash, "CONSENSUS_RESULT")
EmailPending == RowsByEmail(log, last.email_hash, "SUBMISSION") # {}
\* The payload of the row that holds the largest created_at among S.
NewestPayload(S) == log[CHOOSE i \in S : \A j \in S : j <= i].payload
LinkedinApproved ==
    /\ last.linkedin_hash # NoHash
    /\ LinkedinDecisions # {}
    /\ NewestPayload(LinkedinDecisions) = "approve"
\* Library and credentials are there and no query raises.
Reachable == last.op = "check" /\ last.mode = "online" /\ last.fault = "none"

(***************************************************************************)
(* What the claims about audit_lead read off the state                     *)
(***************************************************************************)
\* The AuditResults the calls made so far have returned.
Returned ==
    {r \in (IF apc \in {"once", "twice"} THEN {result1} ELSE {})
           \cup (IF apc = "twice" THEN {result2} ELSE {}) : ~r.raised}

\* The lists validate_location can return for the lead.
LocationOutputs ==
    validate_location(Get(lead, "city"), Get(lead, "country"), Region(lead))

DuplicateReasons ==
    {"new", "email_already_approved", "email_was_denied_can_resubmit",
     "linkedin_combo_already_approved", "email_pending_processing"}
IsDuplicateCode(e) == \E reason \in DuplicateReasons : e = "duplicate:" \o reason

(***************************************************************************)
(* C1: audit_lead runs every stage on every call, whatever earlier stages  *)
(* reported: the blocking_errors of every result it returns is the output  *)
(* of Attestation, then Required Fields, Source Provenance, Role,          *)
(* Description, Email, Employee Count, Industry Pair, LinkedIn URLs,       *)
(* Location and the Duplicate Check, each stage's full output, in that     *)
(* order.                                                                  *)
(***************************************************************************)
C1_StagesInOrder ==
    \A r \in Returned :
        \E location \in LocationOutputs :
            r.blocking_errors =
                validate_attestation(lead)
                \o validate_required_fields(lead)
                \o validate_source_provenance(lead)
                \o validate_role(Get(lead, "role"))
                \o validate_description(Get(lead, "description")).errors
                \o validate_email(Get(lead, "email"), Get(lead, "first"), Get(lead, "last"))
                \o validate_employee_count(Get(lead, "employee_count"))
                \o validate_industry_pair(Get(lead, "industry"), Get(lead, "sub_industry"),
                                          setup.taxonomy)
                \o validate_linkedin_urls(Get(lead, "linkedin"),
                                          Get(lead, "company_linkedin"))
                \o location
                \o DuplicateError(r.duplicate_status)

\* The first stage and the last stage both report, in one result.
C1_Witness ==
    /\ apc = "once" /\ ~result1.raised
    /\ validate_attestation(lead) # <<>>
    /\ Head(result1.blocking_errors) = Head(validate_attestation(lead))
    /\ IsDuplicateCode(result1.blocking_errors[Len(result1.blocking_errors)])

(***************************************************************************)
(* C2: in every AuditResult audit_lead returns, passed is true exactly     *)
(* when blocking_errors is empty, and blocking_errors holds a              *)
(* duplicate:<reason> code exactly when duplicate_status has is_duplicate  *)
(* true and can_resubmit false; warnings never change passed.              *)
(***************************************************************************)
C2_PassedIffNoBlockingError ==
    \A r \in Returned :
        /\ r.passed = (r.blocking_errors = <<>>)
        /\ (\E i \in DOMAIN r.blocking_errors : IsDuplicateCode(r.blocking_errors[i]))
              = (r.duplicate_status.is_duplicate /\ ~r.duplicate_status.can_resubmit)

\* A lead that passes although the audit warns about it.
C2_Witness ==
    /\ apc = "once" /\ ~result1.raised
    /\ result1.passed
    /\ result1.warnings # <<>>
    /\ ~result1.duplicate_status.is_duplicate

(***************************************************************************)
(* C3: auditing is deterministic: the same lead audited twice with the     *)
(* same duplicate mode, the same cache and the same outcomes of the        *)
(* external collaborators gives the same blocking_errors and the same      *)
(* warnings, in content and in order.                                      *)
(***************************************************************************)
C3_Deterministic ==
    (apc = "twice" /\ ~result1.raised /\ ~result2.raised) =>
        /\ result1.blocking_errors = result2.blocking_errors
        /\ result1.warnings = result2.warnings

(***************************************************************************)
(* C4 (as stated): in offline mode, a fingerprint (email hash or LinkedIn  *)
(* combo hash) whose cached decision is approve makes check return         *)
(* is_duplicate = true and can_resubmit = false, and a fingerprint whose   *)
(* cached decision is deny or unknown, or that is absent from the cache,   *)
(* makes it return can_resubmit = true.                                    *)
(***************************************************************************)
C4_PerFingerprint ==
    (Checked /\ last.mode = "offline") =>
        /\ CachedEmail = "approve" => IsDup(last.ret)
        /\ CachedLinkedin = "approve" => IsDup(last.ret)
        /\ (last.email_hash # NoHash /\ CachedEmail # "approve") => last.ret.can_resubmit
        /\ (last.linkedin_hash # NoHash /\ CachedLinkedin # "approve")
              => last.ret.can_resubmit

(***************************************************************************)
(* C4 (amended): in offline mode every status check returns has            *)
(* is_duplicate = true and can_resubmit = false exactly when the email     *)
(* hash's cached decision is approve, or the email hash has no cache entry *)
(* and the LinkedIn combo hash's cached decision is approve; every other   *)
(* status has is_duplicate = false and can_resubmit = true; the source is  *)
(* cache.                                                                  *)
(***************************************************************************)
C4_OfflineDecision ==
    (Checked /\ last.mode = "offline") =>
        /\ last.ret.source = "cache"
        /\ IF \/ CachedEmail = "approve"
              \/ CachedEmail = "absent" /\ CachedLinkedin = "approve"
           THEN IsDup(last.ret)
           ELSE Resubmittable(last.ret)

\* An email hash cached as denied hides an approved LinkedIn combo hash.
C4_Witness ==
    /\ Checked /\ last.mode = "offline"
    /\ CachedEmail = "deny" /\ CachedLinkedin = "approve"
    /\ last.ret.reason = "email_was_denied_can_resubmit"

(***************************************************************************)
(* C5: in online mode with a reachable remote log, check decides from the  *)
(* most recent CONSENSUS_RESULT row of the email hash: approve gives       *)
(* (true, email_already_approved, false, online), any other final decision *)
(* gives (false, email_was_denied_can_resubmit, true, online), whatever    *)
(* the older rows of that hash say.                                        *)
(***************************************************************************)
C5_NewestDecision ==
    (/\ last.op = "check" /\ last.mode = "online"
     /\ last.fault \notin {"no_library", "no_credentials", "q_email"}
     /\ last.email_hash # NoHash
     /\ EmailDecisions # {}
     /\ NewestPayload(EmailDecisions) # "null") =>
        last.ret = IF NewestPayload(EmailDecisions) = "approve"
                   THEN Status(TRUE, "email_already_approved", FALSE, "online")
                   ELSE Status(FALSE, "email_was_denied_can_resubmit", TRUE, "online")

\* An older row approved the email hash, the newest one denied it.
C5_Witness ==
    /\ Reachable
    /\ \E i \in EmailDecisions : log[i].payload = "approve"
    /\ NewestPayload(EmailDecisions) = "deny"
    /\ last.ret.reason = "email_was_denied_can_resubmit"

RemoteFailure ==
    /\ last.op = "check" /\ last.mode = "online"
    /\ \/ last.fault \in {"no_library", "no_credentials"}
       \/ \E i \in DOMAIN last.asked : last.asked[i] = last.fault

C7_FallbackOnEveryFailure ==
    RemoteFailure => last.ret = OfflineBranch(cache, last.email_hash, last.linkedin_hash)

(***************************************************************************)
(* C8: check and sync_cache never raise to their caller, for every         *)
(* behaviour of the remote collaborator and every cache content that       *)
(* _load_cache returns.                                                    *)
(***************************************************************************)
C8_NeverRaises == last.op \in {"check", "sync"} => ~last.ret.raised

(***************************************************************************)
(* C9: every DuplicateStatus check returns, in any mode and after any      *)
(* fallback, has can_resubmit = false only with reason                     *)
(* email_already_approved, linkedin_combo_already_approved or              *)
(* email_pending_processing, is_duplicate = not can_resubmit, reason new   *)
(* only with is_duplicate = false, and source online or cache.             *)
(***************************************************************************)
C9_StatusInvariant ==
    Checked =>
        /\ ~last.ret.can_resubmit =>
              last.ret.reason \in {"email_already_approved",
                                   "linkedin_combo_already_approved",
                                   "email_pending_processing"}
        /\ last.ret.is_duplicate = ~last.ret.can_resubmit
        /\ last.ret.reason = "new" => ~last.ret.is_duplicate
        /\ last.ret.source \in {"online", "cache"}

\* A call that fell back to the cache and found an approved hash there.
C9_Witness ==
    /\ Checked /\ last.mode = "online" /\ mode = "offline"
    /\ last.ret.source = "cache" /\ ~last.ret.can_resubmit

(***************************************************************************)
(* C10: normalize_linkedin_url is idempotent for each url type:            *)
(* normalize(normalize(x, t), t) = normalize(x, t) for every input x.      *)
(***************************************************************************)
C10_Idempotent == npc = "twice" => norm2 = norm1

(***************************************************************************)
(* C11: normalize_linkedin_url returns the empty string for every URL      *)
(* whose host (after the scheme and a leading www. are removed) is not     *)
(* linkedin.com, for both url types; consequently the combo hash of such a *)
(* URL is the empty hash.                                                  *)
(***************************************************************************)
\* The host of a URL: what stands between the scheme and leading www. and the
\* first slash, question mark or hash sign.
HostOf(u) == TakeUntil(DropWww(DropScheme(Lower(Strip(u)))), {"/", "?", "#"})

C11_ForeignHostRejected ==
    (npc \in {"once", "twice"} /\ HostOf(url) # <<"linkedin.com">>) =>
        /\ norm1 = <<>>
        /\ compute_linkedin_combo_hash(url, url) = NoHash

(***************************************************************************)
(* C12: validate_role reports role_typo:<typo>-><correct> for every        *)
(* non-empty role that holds a misspelling of the dictionary as a whole    *)
(* word, and reports none for a misspelling that occurs only inside a      *)
(* longer word.                                                            *)
(***************************************************************************)
CallReturned(f) == fname = f /\ cpc = "done"

\* The whole words of a text: the maximal runs of tokens that are not marks.
WholeWords(s) ==
    {Join(SubSeq(s, i, j)) : <<i, j>> \in
        {<<i, j>> \in (DOMAIN s) \X (DOMAIN s) :
            /\ i <= j
            /\ \A k \in i..j : s[k] \notin Marks
            /\ i = 1 \/ s[i - 1] \in Marks
            /\ j = Len(s) \/ s[j + 1] \in Marks}}

TypoCode(typo, correct) == "role_typo:" \o typo \o "->" \o correct

C13_CappedBonus ==
    CallReturned("preview_score") =>
        /\ fret.icp_bonus \in {0, 50}
        /\ fret.estimated_adjustment =
              Min(50, fret.icp_bonus + Max(0, fret.size_adjustment))
              + Min(0, fret.size_adjustment)
        /\ fret.estimated_adjustment <= 50

\* A company of at most 10 employees in a hub city that matches an ICP.
C13_Witness ==
    /\ CallReturned("preview_score")
    /\ fret.icp_bonus = 50
    /\ fret.size_adjustment = 50
    /\ fret.estimated_adjustment = 50

(***************************************************************************)
(* C14: for a lead whose employee-count bucket lies above 1,000 employees, *)
(* whose city is not a hub and that matches no ICP definition, the         *)
(* estimated adjustment is -10.                                            *)
(***************************************************************************)
LargeNoHubNoIcp(buckets) ==
    /\ CallReturned("preview_score")
    /\ Join(Get(fargs, "employee_count")) \in buckets
    /\ ~is_major_hub(Get(fargs, "city"), Get(fargs, "country"))
    /\ ~check_icp_match(Get(fargs, "sub_industry"), Get(fargs, "role"),
                        Get(fargs, "country"), Get(fargs, "city")).matches

\* As claimed: -10 for each of the three buckets.
C14_LargeIsMinusTen ==
    LargeNoHubNoIcp({"1,001-5,000", "5,001-10,000", "10,001+"}) =>
        fret.estimated_adjustment = -10

\* As the code has it: -15 for 5,001-10,000, -10 for the two other buckets.
C14_LargePenalty ==
    /\ LargeNoHubNoIcp({"1,001-5,000", "10,001+"}) => fret.estimated_adjustment = -10
    /\ LargeNoHubNoIcp({"5,001-10,000"}) => fret.estimated_adjustment = -15

C14_Witness ==
    /\ LargeNoHubNoIcp({"5,001-10,000"})
    /\ fret.estimated_adjustment = -15

(***************************************************************************)
(* C15: validate_attestation reports attestation_false_or_missing:<field>  *)
(* for each of the three boolean fields whose value is anything other than *)
(* the boolean true (false, absent, a number, the text "true"), and        *)
(* missing_field:<name> for an absent or blank wallet_ss58 or              *)
(* terms_version_hash; the codes are among the blocking_errors of the      *)
(* AuditResult that audit_lead returns.                                    *)
(***************************************************************************)
AttestationCodes(l) ==
    {"attestation_false_or_missing:" \o f :
        f \in {f \in {"lawful_collection", "no_restricted_sources", "license_granted"} :
                  l[f] # JsonTrue}}
    \cup {"missing_field:" \o f :
            f \in {f \in {"wallet_ss58", "terms_version_hash"} :
                      l[f] = Absent \/ \A i \in DOMAIN l[f] : l[f][i] = " "}}

C15_AttestationCodes ==
    /\ Range(validate_attestation(lead)) = AttestationCodes(lead)
    /\ (apc \in {"once", "twice"} /\ ~result1.raised) =>
            AttestationCodes(lead) \subseteq Range(result1.blocking_errors)

C15_Witness ==
    /\ apc = "once"
    /\ ~result1.raised
    /\ lead.no_restricted_sources = JsonNumber
    /\ lead.license_granted = <<"true">>
    /\ {"attestation_false_or_missing:no_restricted_sources",
        "attestation_false_or_missing:license_granted"}
           \subseteq Range(result1.blocking_errors)

(***************************************************************************)
(* C16: the network checks never block: audit_lead returns the same passed *)
(* value and the same blocking_errors whether run_network_checks is true   *)
(* or false, and whatever the network checks find or however they fail.    *)
(***************************************************************************)
\* What the network can do to one audit.
NetOutcomes ==
    {SetupOf(D).net :
        D \in SUBSET {"no_dns_library", "mx_raises", "dbl_listed", "young_domain", "site_404"}}

\* Whether a call returned, and the verdict it returned.
Verdict(r) == <<r.raised, r.passed, r.blocking_errors>>

C16_NetworkNeverBlocks ==
    apc \in {"once", "twice"} =>
        \A run_checks \in BOOLEAN, net \in NetOutcomes :
            Verdict(result1) \in
                {Verdict(r) : r \in audit_lead(lead, duplicate_mode, run_checks, cacheFile, log,
                                               [setup EXCEPT !.net = net])}

\* The same, for the leads whose email and website are texts or absent.
C16_TextsNeverBlock ==
    (lead.email # JsonNumber /\ lead.website # JsonNumber) => C16_NetworkNeverBlocks

(***************************************************************************)
(* C18: when the taxonomy cannot be loaded (file missing, unreadable,      *)
(* unparsable or empty) validate_industry_pair returns exactly             *)
(* [taxonomy_not_loaded] for every input, never the empty list.            *)
(***************************************************************************)
C18_TaxonomyNotLoaded ==
    (CallReturned("validate_industry_pair") /\ fargs.file # "taxonomy") =>
        fret = <<"taxonomy_not_loaded">>

C18_Witness ==
    /\ CallReturned("validate_industry_pair")
    /\ fargs.file = "bad_literal"
    /\ fargs.industry = <<"Software">>
    /\ fargs.sub_industry = <<"Machine", " ", "Learning">>
    /\ fret = <<"taxonomy_not_loaded">>

(***************************************************************************)
(* C19: the fallback from online to offline is scoped to the failing call: *)
(* the mode of a DuplicateChecker that was online when check was called is *)
(* still online when check has returned, so that a later check asks the    *)
(* remote log again.                                                       *)
(***************************************************************************)
C19_FallbackScopedToCall ==
    (last.op = "check" /\ last.mode = "online") => mode = "online"

(***************************************************************************)
(* C20: after a successful sync_cache, the cache entry of every hash that  *)
(* occurs in the fetched records is at least as recent as each fetched     *)
(* record of that hash, and when it is that of a fetched record it holds   *)
(* that record's decision: no entry is replaced by an older one, whatever  *)
(* order the remote log returns the records in.                            *)
(***************************************************************************)
\* The rows the last sync_cache fetched, in the order it got them.
Fetched == IF last.op = "sync" /\ last.fault \in {"none", "save"} THEN last.asked ELSE <<>>

\* The sync merged every fetched row and saved the cache.
SyncSucceeded ==
    /\ last.op = "sync"
    /\ last.fault = "none"
    /\ \A i \in Range(Fetched) :
          /\ log[i].payload # "null"
          /\ log[i].email_hash # NoHash => cache.email_hashes.present
          /\ log[i].linkedin_combo_hash # NoHash => cache.linkedin_hashes.present

NewestKept(table, h, i) ==
    /\ h \in DOMAIN table.entries
    /\ table.entries[h].timestamp >= i
    /\ table.entries[h].timestamp = i =>
          table.entries[h].decision =
             (IF log[i].payload = "no_decision" THEN "unknown" ELSE log[i].payload)

C20_NewestRecordKept ==
    SyncSucceeded =>
        \A i \in Range(Fetched) :
            /\ log[i].email_hash # NoHash =>
                  NewestKept(cache.email_hashes, log[i].email_hash, i)
            /\ log[i].linkedin_combo_hash # NoHash =>
                  NewestKept(cache.linkedin_hashes, log[i].linkedin_combo_hash, i)

(***************************************************************************)
(* C17: audit_lead never raises on a malformed field value: for a lead in  *)
(* which a field holds a value that is not a string it returns an          *)
(* AuditResult, the one it returns when the field is absent, in both       *)
(* duplicate modes and with the network checks on or off.                  *)
(***************************************************************************)
\* The lead with its values that are not texts taken out.
WithoutNumbers(l) ==
    [k \in DOMAIN l |-> IF l[k] = JsonNumber /\ k \in {"email", "website"} THEN Absent ELSE l[k]]

C17_MalformedNeverRaises ==
    (apc \in {"once", "twice"} /\ JsonNumber \in {lead.email, lead.website}) =>
        /\ result1 \notin {AuditRaised("TypeError"), AuditRaised("AttributeError")}
        /\ Verdict(result1) \in
              {Verdict(r) : r \in audit_lead(WithoutNumbers(lead), duplicate_mode,
                                             run_network_checks, cacheFile, log, setup)}

(***************************************************************************)
(* C21: on success sync_cache returns the count of merged entries, the     *)
(* number of cache entries (email-hash entries and LinkedIn-hash entries)  *)
(* the call inserted or overwrote, and the cache file it wrote equals the  *)
(* in-memory cache after the merge.                                        *)
(***************************************************************************)
\* The entries the last sync_cache wrote: one per hash of a fetched row.
MergedEmailHashes == {log[i].email_hash : i \in Range(Fetched)} \ {NoHash}
MergedLinkedinHashes == {log[i].linkedin_combo_hash : i \in Range(Fetched)} \ {NoHash}

C21_CountsMergedEntries ==
    SyncSucceeded =>
        /\ last.ret.count = Cardinality(MergedEmailHashes) + Cardinality(MergedLinkedinHashes)
        /\ cacheFile = File(TRUE, cache)

(***************************************************************************)
(* C22: check leaves the duplicate cache unchanged: over any sequence of   *)
(* check calls, online, offline or after a fallback, the in-memory cache   *)
(* and the cache file are what they were before the call; only sync_cache  *)
(* changes them (a new checker loads the file), and check sends none of    *)
(* sync_cache's queries.                                                   *)
(***************************************************************************)
C22_CheckLeavesCache ==
    [][/\ last'.op = "check" =>
            /\ cache' = cache
            /\ cacheFile' = cacheFile
            /\ Range(last'.asked) \subseteq {"q_email", "q_linkedin", "q_pending"}
       /\ cacheFile' # cacheFile => last'.op = "sync"
       /\ cache' # cache =>
            \/ last'.op = "sync"
            \/ last' = Idle /\ cache' = load_cache(cacheFile)]_vars

\* A check of a checker with a filled cache fell back from online to offline.
C22_Witness ==
    /\ last.op = "check"
    /\ last.mode = "online"
    /\ mode = "offline"
    /\ cache.email_hashes.present
    /\ DOMAIN cache.email_hashes.entries # {}
    /\ log # <<>>

(***************************************************************************)
(* C23: within one process, over any sequence of load_industry_taxonomy    *)
(* calls (validate_industry_pair makes one), the taxonomy file is read at  *)
(* most once, also when the first load fails or finds no file; after a     *)
(* successful load every later call returns the memoized mapping without   *)
(* touching the file.                                                      *)
(***************************************************************************)
C23_SourceReadOnce ==
    fname = "load_industry_taxonomy" =>
        /\ taxonomy_opens <= 1
        /\ _TAXONOMY_CACHE.loaded => fret[Len(fret)] = _TAXONOMY_CACHE.value

(***************************************************************************)
(* C24: the offline decision is the online one replayed on the cache:      *)
(* after sync_cache has merged every CONSENSUS_RESULT record of the remote *)
(* log, an offline check returns the same is_duplicate, reason and         *)
(* can_resubmit as an online check against that log, for every fingerprint *)
(* whose email hash has a CONSENSUS_RESULT record or has no SUBMISSION     *)
(* record.                                                                 *)
(***************************************************************************)
\* The last call was a sync_cache that merged every CONSENSUS_RESULT record of
\* the log, and the cache holds both tables and nothing but what was merged
\* from this log.
AllMerged ==
    /\ SyncSucceeded
    /\ Range(Fetched) = RecentConsensus(log, 1)
    /\ cache.email_hashes.present
    /\ cache.linkedin_hashes.present
    /\ \A h \in DOMAIN cache.email_hashes.entries :
          cache.email_hashes.entries[h].timestamp >= 1
    /\ \A h \in DOMAIN cache.linkedin_hashes.entries :
          cache.linkedin_hashes.entries[h].timestamp >= 1

\* The fingerprints the claim is about.
DecidedOrNotPending(email) ==
    LET email_hash == IF email # <<>> THEN compute_email_hash(email) ELSE NoHash
    IN  \/ RowsByEmail(log, email_hash, "CONSENSUS_RESULT") # {}
        \/ RowsByEmail(log, email_hash, "SUBMISSION") = {}

SameDecision(a, b) ==
    /\ ~a.raised
    /\ ~b.raised
    /\ a.is_duplicate = b.is_duplicate
    /\ a.reason = b.reason
    /\ a.can_resubmit = b.can_resubmit

OfflineAsOnline ==
    \A email \in Emails, li \in LinkedinPairs :
        DecidedOrNotPending(email) =>
            SameDecision(check("offline", cache, log, "none", email, li[1], li[2]).ret,
                         check("online", cache, log, "none", email, li[1], li[2]).ret)

C24_OfflineReplaysOnline == AllMerged => OfflineAsOnline

\* The records came back oldest first.
FetchedAscending == \A i, j \in DOMAIN Fetched : i < j => Fetched[i] < Fetched[j]

\* What holds of C24: when the records came back oldest first, the offline
\* check on the merged cache decides as the online check on the log.
C24_InOrderReplay == (AllMerged /\ FetchedAscending) => OfflineAsOnline

(***************************************************************************)
(* C25: check_icp_match returns matches = true with bonus 50 exactly when  *)
(* some ICP definition satisfies all of: the sub-industry equals, is a     *)
(* substring of or contains one of its sub-industries; the expanded role   *)
(* contains one of its roles; and, when it has a region filter, the        *)
(* country or the city contains one of its regions.  icp_name is then the  *)
(* name of the first such definition in ICP_DEFINITIONS order; otherwise   *)
(* bonus is 0 and icp_name is null.                                        *)
(***************************************************************************)
\* The definitions the arguments of the call satisfy, as indexes of the list.
Satisfied ==
    LET sub == LowerStrip(fargs.sub_industry)
        expanded == RoleExpanded(LowerStrip(fargs.role))
        country == LowerStrip(fargs.country)
        city == LowerStrip(fargs.city)
    IN  {i \in DOMAIN ICP_DEFINITIONS :
            /\ \E s \in Range(ICP_DEFINITIONS[i].sub_industries) :
                  sub = s \/ In(sub, s) \/ In(s, sub)
            /\ \E r \in Range(ICP_DEFINITIONS[i].roles) : Contains(expanded, r)
            /\ "regions" \in DOMAIN ICP_DEFINITIONS[i] =>
                  \E g \in Range(ICP_DEFINITIONS[i].regions) : In(g, country) \/ In(g, city)}

AcceptedByTitle ==
    LET sub == LowerStrip(fargs.sub_industry)
        role_lower == LowerStrip(fargs.role)
        country == LowerStrip(fargs.country)
        city == LowerStrip(fargs.city)
    IN  {i \in DOMAIN ICP_DEFINITIONS :
            /\ \E s \in Range(ICP_DEFINITIONS[i].sub_industries) :
                  sub = s \/ In(sub, s) \/ In(s, sub)
            /\ "regions" \in DOMAIN ICP_DEFINITIONS[i] =>
                  \E g \in Range(ICP_DEFINITIONS[i].regions) : In(g, country) \/ In(g, city)
            /\ \E e \in Range(role_expansions) :
                  /\ In(e.full, role_lower)
                  /\ e.abbr \in Range(ICP_DEFINITIONS[i].roles)}

C26_ExpansionCoversEveryTitle ==
    (CallReturned("check_icp_match") /\ AcceptedByTitle # {}) => fret.matches

(***************************************************************************)
(* C27: validate_required_fields reports the state/region requirement      *)
(* violation exactly when the lower-cased country contains one of the US   *)
(* aliases as a substring and the record has no non-blank state or region  *)
(* value; it reports missing_field:<name> for each of the 16 required      *)
(* fields that is absent or blank, and for no other field.                 *)
(***************************************************************************)
StateCode == "missing_field:state (required for US leads)"
UsCountry(l) == \E alias \in US_COUNTRY_ALIASES : Contains(Lower(Get(l, "country")), alias)
NoValue(l, key) == l[key] = Absent \/ Strip(l[key]) = <<>>

\* The missing_field:<name> half of C27.
MissingFieldCodes ==
    Range(fret) \ {StateCode} =
        {"missing_field:" \o f : f \in {g \in Range(REQUIRED_FIELDS) : NoValue(fargs, g)}}

C27_StateOrRegionForUsLeads ==
    CallReturned("validate_required_fields") =>
        /\ StateCode \in Range(fret) <=>
              (UsCountry(fargs) /\ NoValue(fargs, "state") /\ NoValue(fargs, "region"))
        /\ MissingFieldCodes

\* What holds of C27: the requirement is on the state alone.
C27_StateForUsLeads ==
    CallReturned("validate_required_fields") =>
        /\ StateCode \in Range(fret) <=> (UsCountry(fargs) /\ NoValue(fargs, "state"))
        /\ MissingFieldCodes

(***************************************************************************)
(* C28: if sync_cache fails (it returns 0 after a missing library, missing *)
(* credentials, a query error, or an error raised while processing a       *)
(* fetched row), the in-memory cache and the cache file are exactly as     *)
(* they were before the call: no partially merged entries remain.          *)
(***************************************************************************)
\* The last call was a sync_cache that failed in one of the four ways.
SyncFailed ==
    /\ last.op = "sync"
    /\ last.fault \in {"none", "no_library", "no_credentials", "q_sync"}
    /\ ~SyncSucceeded

C28_FailedSyncChangesNothing ==
    [][SyncFailed' => (last'.ret.count = 0 /\ cache' = cache /\ cacheFile' = cacheFile)]_vars

\* What holds of C28: a failed sync_cache returns 0 and leaves the file alone.
C28_FailedSyncKeepsFile ==
    [][SyncFailed' => (last'.ret.count = 0 /\ cacheFile' = cacheFile)]_vars

(***************************************************************************)
(* C29: no violation code occurs more than once in the blocking_errors of  *)
(* one audit_lead result: a single defect of the record (an absent         *)
(* source_url, say) is reported by exactly one stage.                      *)
(***************************************************************************)
C29_NoCodeTwice ==
    (apc \in {"once", "twice"} /\ ~result1.raised) =>
        \A i, j \in DOMAIN result1.blocking_errors :
            i # j => result1.blocking_errors[i] # result1.blocking_errors[j]

(***************************************************************************)
(* C30: a lead whose sub_industry is empty or absent never matches an ICP  *)
(* definition: for every role, country and city check_icp_match returns    *)
(* matches = false and bonus 0, and preview_score returns icp_bonus 0.     *)
(***************************************************************************)
NoSubIndustry(v) == v = Absent \/ Strip(v) = <<>>

C30_NoSubIndustryNoMatch ==
    /\ (CallReturned("check_icp_match") /\ NoSubIndustry(fargs.sub_industry)) =>
          (~fret.matches /\ fret.bonus = 0)
    /\ (CallReturned("preview_score") /\ NoSubIndustry(fargs.sub_industry)) =>
          fret.icp_bonus = 0

====
